---------------------------- MODULE Spec2Model ----------------------------
(***************************************************************************)
(* Distributed betweenness centrality (Brandes, BFS distances) of          *)
(* src/exp/apps/compiler_outputs/bc/gen.cpp.                                *)
(*                                                                         *)
(* The hosts run the same program in lock step: every inter-host sync and  *)
(* every DGAccumulator reduce is a blocking collective, so the position of *)
(* the program is one pc shared by the hosts.  A do_all pass touches only  *)
(* the node data of the host that runs it.  Node data is kept per replica  *)
(* (host, node); floats are kept as exact fractions <<numerator,           *)
(* denominator>> (denominator 0 stands for inf / NaN).                     *)
(*                                                                         *)
(* The partitioned graph (hGraph) and its sync call are not part of the    *)
(* sources at hand (gen_sync.hh, hGraph.h): they are modelled from the     *)
(* specification, section 4.1 and 6.                                        *)
(***************************************************************************)
EXTENDS Integers, Sequences, FiniteSets

VARIABLES
  graph,               \* [E, owner, ehost, vcut]: the partitioned input graph
  startSource,         \* command line: srcNodeId
  numberOfSources,     \* command line: numOfSources
  singleSourceBC,      \* command line: singleSource
  numRuns,             \* command line: number of runs
  sourceOrder,         \* the order in which a re-run takes its sources
  maxIterations,       \* command line: maxIterations
  nd,                  \* nd[h][v]: NodeData of node v's replica on host h
  bitset,              \* bitset[h][field]: the dirty bitset of a field on host h
  DGAccumulator_accum, \* DGAccumulator_accum[struct][h]: the host's local count
  accum_result,        \* accum_result[h]: host h's last reduce() result
  iterations,          \* the round counter of the running round loop
  current_src_node,    \* the global current_src_node
  i,                   \* BC::go's loop variable
  end_i,               \* BC::go's end_i
  run,                 \* main's run counter
  hid,                 \* host whose SSSP do_all pass is modelled next
  assert_failed,       \* some assert() of the program has failed
  pc,                  \* position of the (lock-step) program; "blocked":
                       \* the hosts have taken different branches
  dep_at_exit,         \* history: dependency when the dependency loop last exited
  bc_expected,         \* history: sum over the run's sources of dep_at_exit
  bc_first_run,        \* history: betweeness_centrality at the end of run 0
  processed            \* history: the sources BC::go has taken, in order

config == <<graph, startSource, numberOfSources, singleSourceBC, numRuns,
            sourceOrder, maxIterations>>
history == <<dep_at_exit, bc_expected, bc_first_run, processed>>
vars == <<graph, startSource, numberOfSources, singleSourceBC, numRuns,
          sourceOrder, maxIterations, nd,
          bitset, DGAccumulator_accum, accum_result, iterations,
          current_src_node, i, end_i, run, hid, assert_failed, pc,
          dep_at_exit, bc_expected, bc_first_run, processed>>

(***************************************************************************)
(* Bounds of the model.                                                    *)
(***************************************************************************)
NumHosts == 2
MaxEdges == 1
MaxCut == 1
MaxStart == 1
MaxSources == 2
MaxRuns == 2
MaxRounds == 2

Hosts == 0 .. (NumHosts - 1)
\* the nodes of the input graphs
Nodes == {0, 1, 2, 3}

(***************************************************************************)
(* Program constants.                                                      *)
(***************************************************************************)
infinity == 1073741823
\* the default of the command line option maxIterations
DefaultMaxIterations == 10000

(***************************************************************************)
(* float arithmetic, as exact fractions                                    *)
(***************************************************************************)
RECURSIVE GCD(_, _)
GCD(a, b) == IF b = 0 THEN a ELSE GCD(b, a % b)

FInf == <<1, 0>>
FNaN == <<0, 0>>
FZero == <<0, 1>>
FOne == <<1, 1>>

FNorm(n, d) ==
  IF d = 0 THEN (IF n = 0 THEN FNaN ELSE FInf)
  ELSE LET g == GCD(n, d) IN <<n \div g, d \div g>>

FromInt(n) == <<n, 1>>

FAdd(a, b) ==
  IF a = FNaN \/ b = FNaN THEN FNaN
  ELSE IF a = FInf \/ b = FInf THEN FInf
  ELSE FNorm(a[1] * b[2] + b[1] * a[2], a[2] * b[2])

FMul(a, b) ==
  IF a = FNaN \/ b = FNaN THEN FNaN
  ELSE IF a = FInf \/ b = FInf
       THEN (IF a[1] = 0 \/ b[1] = 0 THEN FNaN ELSE FInf)
  ELSE FNorm(a[1] * b[1], a[2] * b[2])

FDiv(a, b) ==
  IF a = FNaN \/ b = FNaN THEN FNaN
  ELSE IF b = FInf THEN (IF a = FInf THEN FNaN ELSE FZero)
  ELSE IF a = FInf THEN FInf
  ELSE FNorm(a[1] * b[2], a[2] * b[1])

FGtZero(a) == a[1] > 0

RECURSIVE SumOver(_, _)
SumOver(f, S) ==
  IF S = {} THEN 0
  ELSE LET x == CHOOSE y \in S : TRUE IN f[x] + SumOver(f, S \ {x})

(***************************************************************************)
(* The partitioned graph                                                   *)
(***************************************************************************)
OutEdges(h, u) == {e \in graph.E : e[1] = u /\ graph.ehost[e] = h}
InEdges(h, v) == {e \in graph.E : e[2] = v /\ graph.ehost[e] = h}
EdgeDsts(h, u) == {e[2] : e \in OutEdges(h, u)}

isOwned(h, v) == graph.owner[v] = h
IsSource(h, v) == OutEdges(h, v) # {}
IsDestination(h, v) == InEdges(h, v) # {}
isLocal(h, v) == isOwned(h, v) \/ IsSource(h, v) \/ IsDestination(h, v)
LocalNodes(h) == {v \in Nodes : isLocal(h, v)}
is_vertex_cut == graph.vcut
totalNodes == Cardinality(Nodes)


\* the range _graph.begin() .. _graph.end() of a do_all: the host's local nodes
RECURSIVE SeqOf(_)
SeqOf(S) ==
  IF S = {} THEN <<>>
  ELSE LET x == CHOOSE y \in S : \A z \in S : y <= z IN <<x>> \o SeqOf(S \ {x})

LocalRange(h) == SeqOf(LocalNodes(h))

\* the function f, stored entry by entry into the array `base` (seq lists the
\* domain of both)
RECURSIVE Stored(_, _, _)
Stored(base, f, seq) ==
  IF seq = <<>> THEN base
  ELSE Stored([base EXCEPT ![Head(seq)] = f[Head(seq)]], f, Tail(seq))

(***************************************************************************)
(* NodeData and the per-host state a task works on:                         *)
(* [d: node data of the host, b: its dirty bitsets, acc: its accumulator,  *)
(*  af: an assert failed]                                                   *)
(***************************************************************************)
NodeData0 ==
  [current_length |-> 0, old_length |-> 0, num_shortest_paths |-> 0,
   num_successors |-> 0, num_predecessors |-> 0, trim |-> 0, to_add |-> 0,
   to_add_float |-> FZero, dependency |-> FZero,
   betweeness_centrality |-> FZero, propogation_flag |-> FALSE]

Bitsets0 ==
  [to_add |-> {}, to_add_float |-> {}, num_shortest_paths |-> {},
   num_successors |-> {}, num_predecessors |-> {}, trim |-> {},
   current_length |-> {}, propogation_flag |-> {}, dependency |-> {}]

\* A uint32_t is held as the integer of the same 32 bits (two's complement):
\* a value of 2^31 or more is a negative number, so that a difference that
\* wraps below 0 is the plain difference, and comparisons are unsigned.
U32(x) == IF x > 2147483647 THEN x - 2147483647 - 2147483647 - 2 ELSE x
UGt(a, b) == IF (a < 0) = (b < 0) THEN a > b ELSE a < 0
UMin(a, b) == IF UGt(a, b) THEN b ELSE a

RECURSIVE FSum(_, _)
FSum(f, S) ==
  IF S = {} THEN FZero
  ELSE LET x == CHOOSE y \in S : TRUE IN FAdd(f[x], FSum(f, S \ {x}))

(***************************************************************************)
(* The functors: one operator per operator()(GNode src)                    *)
(***************************************************************************)
\* InitializeGraph's task without the reset of betweeness_centrality
InitializeGraph_op_keepBC(h, S, src) ==
  [S EXCEPT !.d[src] =
     [@ EXCEPT !.num_shortest_paths = 0,
               !.num_successors = 0, !.num_predecessors = 0, !.trim = 0,
               !.to_add = 0, !.to_add_float = FZero, !.dependency = FZero,
               !.propogation_flag = FALSE]]

InitializeGraph_op(h, S, src) ==
  [S EXCEPT !.d[src] =
     [@ EXCEPT !.betweeness_centrality = FZero, !.num_shortest_paths = 0,
               !.num_successors = 0, !.num_predecessors = 0, !.trim = 0,
               !.to_add = 0, !.to_add_float = FZero, !.dependency = FZero,
               !.propogation_flag = FALSE]]

\* InitializeIteration's task without the reset of the distances
InitializeIteration_op_keepLength(h, S, src) ==
  LET is_source == src = current_src_node
      nxt == IF ~is_source
             THEN S.d[src]
             ELSE [S.d[src] EXCEPT !.current_length = 0, !.old_length = 0,
                                   !.num_shortest_paths = 1,
                                   !.propogation_flag = TRUE]
  IN [S EXCEPT !.d[src] = nxt,
               !.af = @ \/ (~is_source /\ nxt.propogation_flag)]

\* InitializeIteration's task with a reset of betweeness_centrality as well
InitializeIteration_op_clearBC(h, S, src) ==
  LET is_source == src = current_src_node
      nxt == IF ~is_source
             THEN [S.d[src] EXCEPT !.current_length = infinity,
                                   !.old_length = infinity,
                                   !.betweeness_centrality = FZero]
             ELSE [S.d[src] EXCEPT !.current_length = 0, !.old_length = 0,
                                   !.num_shortest_paths = 1,
                                   !.propogation_flag = TRUE]
  IN [S EXCEPT !.d[src] = nxt,
               !.af = @ \/ (~is_source /\ nxt.propogation_flag)]

\* InitializeIteration's task without the source's one shortest path
InitializeIteration_op_noPath(h, S, src) ==
  LET is_source == src = current_src_node
      nxt == IF ~is_source
             THEN [S.d[src] EXCEPT !.current_length = infinity,
                                   !.old_length = infinity]
             ELSE [S.d[src] EXCEPT !.current_length = 0, !.old_length = 0,
                                   !.propogation_flag = TRUE]
  IN [S EXCEPT !.d[src] = nxt,
               !.af = @ \/ (~is_source /\ nxt.propogation_flag)]

\* InitializeIteration's task with the largest uint32_t (all bits set, the
\* integer -1) as the old_length of a node other than the source
InitializeIteration_op_oldMax(h, S, src) ==
  LET is_source == src = current_src_node
      nxt == IF ~is_source
             THEN [S.d[src] EXCEPT !.current_length = infinity,
                                   !.old_length = 0 - 1]
             ELSE [S.d[src] EXCEPT !.current_length = 0, !.old_length = 0,
                                   !.num_shortest_paths = 1,
                                   !.propogation_flag = TRUE]
  IN [S EXCEPT !.d[src] = nxt,
               !.af = @ \/ (~is_source /\ nxt.propogation_flag)]

InitializeIteration_op(h, S, src) ==
  LET is_source == src = current_src_node
      nxt == IF ~is_source
             THEN [S.d[src] EXCEPT !.current_length = infinity,
                                   !.old_length = infinity]
             ELSE [S.d[src] EXCEPT !.current_length = 0, !.old_length = 0,
                                   !.num_shortest_paths = 1,
                                   !.propogation_flag = TRUE]
  IN [S EXCEPT !.d[src] = nxt,
               !.af = @ \/ (~is_source /\ nxt.propogation_flag)]

FirstIterationSSSP_op(h, S, src) ==
  LET dsts == EdgeDsts(h, src)
      new_dist == U32(1 + S.d[src].current_length)
  IN [S EXCEPT
        !.d = Stored(S.d, [w \in Nodes |->
                             IF w \in dsts
                             THEN [S.d[w] EXCEPT !.current_length = UMin(@, new_dist)]
                             ELSE S.d[w]], SeqOf(Nodes)),
        !.b.current_length = @ \cup dsts]

\* SSSP's task without the count of the distances it lowers
SSSP_op_uncounted(h, S, src) ==
  IF UGt(S.d[src].old_length, S.d[src].current_length)
  THEN LET dsts == EdgeDsts(h, src)
           new_dist == U32(1 + S.d[src].current_length)
           improved == {w \in dsts : UGt(S.d[w].current_length, new_dist)}
       IN [S EXCEPT
             !.d = Stored(S.d, [w \in Nodes |->
                                  IF w = src
                                  THEN [S.d[w] EXCEPT !.old_length = S.d[src].current_length]
                                  ELSE IF w \in dsts
                                  THEN [S.d[w] EXCEPT !.current_length = UMin(@, new_dist)]
                                  ELSE S.d[w]], SeqOf(Nodes)),
             !.b.current_length = @ \cup improved]
  ELSE S

\* SSSP's task with a plain store of the new distance in place of the minimum
SSSP_op_store(h, S, src) ==
  IF UGt(S.d[src].old_length, S.d[src].current_length)
  THEN LET dsts == EdgeDsts(h, src)
           new_dist == U32(1 + S.d[src].current_length)
           improved == {w \in dsts : UGt(S.d[w].current_length, new_dist)}
       IN [S EXCEPT
             !.d = Stored(S.d, [w \in Nodes |->
                                  IF w = src
                                  THEN [S.d[w] EXCEPT !.old_length = S.d[src].current_length]
                                  ELSE IF w \in dsts
                                  THEN [S.d[w] EXCEPT !.current_length = new_dist]
                                  ELSE S.d[w]], SeqOf(Nodes)),
             !.b.current_length = @ \cup improved,
             !.acc = @ + Cardinality(improved)]
  ELSE S

\* SSSP's task without the dirty marks of the lowered destinations
SSSP_op_unmarked(h, S, src) ==
  IF UGt(S.d[src].old_length, S.d[src].current_length)
  THEN LET dsts == EdgeDsts(h, src)
           new_dist == U32(1 + S.d[src].current_length)
           improved == {w \in dsts : UGt(S.d[w].current_length, new_dist)}
       IN [S EXCEPT
             !.d = Stored(S.d, [w \in Nodes |->
                                  IF w = src
                                  THEN [S.d[w] EXCEPT !.old_length = S.d[src].current_length]
                                  ELSE IF w \in dsts
                                  THEN [S.d[w] EXCEPT !.current_length = UMin(@, new_dist)]
                                  ELSE S.d[w]], SeqOf(Nodes)),
             !.acc = @ + Cardinality(improved)]
  ELSE S

SSSP_op(h, S, src) ==
  IF UGt(S.d[src].old_length, S.d[src].current_length)
  THEN LET dsts == EdgeDsts(h, src)
           new_dist == U32(1 + S.d[src].current_length)
           improved == {w \in dsts : UGt(S.d[w].current_length, new_dist)}
       IN [S EXCEPT
             !.d = Stored(S.d, [w \in Nodes |->
                                  IF w = src
                                  THEN [S.d[w] EXCEPT !.old_length = S.d[src].current_length]
                                  ELSE IF w \in dsts
                                  THEN [S.d[w] EXCEPT !.current_length = UMin(@, new_dist)]
                                  ELSE S.d[w]], SeqOf(Nodes)),
             !.b.current_length = @ \cup improved,
             !.acc = @ + Cardinality(improved)]
  ELSE S

\* PredAndSucc's task counting an edge only into a node that has no
\* predecessor yet
PredAndSucc_op_firstOnly(h, S, src) ==
  IF S.d[src].current_length # infinity
  THEN LET dsts == EdgeDsts(h, src)
           onpath == {w \in dsts :
                        /\ U32(S.d[src].current_length + 1) = S.d[w].current_length
                        /\ S.d[w].num_predecessors = 0}
       IN [S EXCEPT
             !.d = Stored(S.d, [w \in Nodes |->
                                  IF w = src
                                  THEN [S.d[w] EXCEPT
                                          !.num_successors = U32(@ + Cardinality(onpath))]
                                  ELSE IF w \in onpath
                                  THEN [S.d[w] EXCEPT !.num_predecessors = U32(@ + 1)]
                                  ELSE S.d[w]], SeqOf(Nodes)),
             !.b.num_successors = IF onpath # {} THEN @ \cup {src} ELSE @,
             !.b.num_predecessors = @ \cup onpath]
  ELSE S

\* PredAndSucc's task counting every edge, whatever the distances
PredAndSucc_op_allEdges(h, S, src) ==
  IF S.d[src].current_length # infinity
  THEN LET dsts == EdgeDsts(h, src)
           onpath == dsts
       IN [S EXCEPT
             !.d = Stored(S.d, [w \in Nodes |->
                                  IF w = src
                                  THEN [S.d[w] EXCEPT
                                          !.num_successors = U32(@ + Cardinality(onpath))]
                                  ELSE IF w \in onpath
                                  THEN [S.d[w] EXCEPT !.num_predecessors = U32(@ + 1)]
                                  ELSE S.d[w]], SeqOf(Nodes)),
             !.b.num_successors = IF onpath # {} THEN @ \cup {src} ELSE @,
             !.b.num_predecessors = @ \cup onpath]
  ELSE S

PredAndSucc_op(h, S, src) ==
  IF S.d[src].current_length # infinity
  THEN LET dsts == EdgeDsts(h, src)
           onpath == {w \in dsts :
                        U32(S.d[src].current_length + 1) = S.d[w].current_length}
       IN [S EXCEPT
             !.d = Stored(S.d, [w \in Nodes |->
                                  IF w = src
                                  THEN [S.d[w] EXCEPT
                                          !.num_successors = U32(@ + Cardinality(onpath))]
                                  ELSE IF w \in onpath
                                  THEN [S.d[w] EXCEPT !.num_predecessors = U32(@ + 1)]
                                  ELSE S.d[w]], SeqOf(Nodes)),
             !.b.num_successors = IF onpath # {} THEN @ \cup {src} ELSE @,
             !.b.num_predecessors = @ \cup onpath]
  ELSE S

\* NumShortestPathsChanges' task without the reset of the trim it has applied
NumShortestPathsChanges_op_keepTrim(h, S, src) ==
  LET d0 == S.d[src]
      trimmed == d0.trim # 0
      npred == IF trimmed THEN U32(d0.num_predecessors - d0.trim)
               ELSE d0.num_predecessors
      hit0 == trimmed /\ npred = 0
      d1 == [d0 EXCEPT !.num_predecessors = npred,
                       !.propogation_flag = IF hit0 THEN TRUE ELSE @]
      added == d1.to_add # 0
      d2 == IF added
            THEN [d1 EXCEPT !.num_shortest_paths = U32(@ + d1.to_add),
                            !.to_add = 0]
            ELSE d1
  IN [S EXCEPT
        !.d[src] = d2,
        !.b.propogation_flag =
            IF hit0 /\ d0.num_successors = 0 THEN @ \cup {src} ELSE @,
        !.b.num_shortest_paths = IF added THEN @ \cup {src} ELSE @,
        !.af = @ \/ (trimmed /\ UGt(d0.trim, d0.num_predecessors))
                 \/ (hit0 /\ d0.propogation_flag)]

\* NumShortestPathsChanges' task marking every node without predecessors
\* ready, trimmed in this pass or not
NumShortestPathsChanges_op_untrimmed(h, S, src) ==
  LET d0 == S.d[src]
      trimmed == d0.trim # 0
      npred == IF trimmed THEN U32(d0.num_predecessors - d0.trim)
               ELSE d0.num_predecessors
      hit0 == npred = 0
      d1 == [d0 EXCEPT !.num_predecessors = npred,
                       !.trim = 0,
                       !.propogation_flag = IF hit0 THEN TRUE ELSE @]
      added == d1.to_add # 0
      d2 == IF added
            THEN [d1 EXCEPT !.num_shortest_paths = U32(@ + d1.to_add),
                            !.to_add = 0]
            ELSE d1
  IN [S EXCEPT
        !.d[src] = d2,
        !.b.propogation_flag =
            IF hit0 /\ d0.num_successors = 0 THEN @ \cup {src} ELSE @,
        !.b.num_shortest_paths = IF added THEN @ \cup {src} ELSE @,
        !.af = @ \/ (trimmed /\ UGt(d0.trim, d0.num_predecessors))
                 \/ (hit0 /\ d0.propogation_flag)]

NumShortestPathsChanges_op(h, S, src) ==
  LET d0 == S.d[src]
      trimmed == d0.trim # 0
      npred == IF trimmed THEN U32(d0.num_predecessors - d0.trim)
               ELSE d0.num_predecessors
      hit0 == trimmed /\ npred = 0
      d1 == [d0 EXCEPT !.num_predecessors = npred,
                       !.trim = 0,
                       !.propogation_flag = IF hit0 THEN TRUE ELSE @]
      added == d1.to_add # 0
      d2 == IF added
            THEN [d1 EXCEPT !.num_shortest_paths = U32(@ + d1.to_add),
                            !.to_add = 0]
            ELSE d1
  IN [S EXCEPT
        !.d[src] = d2,
        !.b.propogation_flag =
            IF hit0 /\ d0.num_successors = 0 THEN @ \cup {src} ELSE @,
        !.b.num_shortest_paths = IF added THEN @ \cup {src} ELSE @,
        !.af = @ \/ (trimmed /\ UGt(d0.trim, d0.num_predecessors))
                 \/ (hit0 /\ d0.propogation_flag)]

\* NumShortestPaths' task without the clearing of the pusher's flag
NumShortestPaths_op_keepFlag(h, S, src) ==
  IF /\ S.d[src].current_length # infinity
     /\ S.d[src].propogation_flag
     /\ S.d[src].num_successors # 0
  THEN LET dsts == EdgeDsts(h, src)
           paths_to_add == S.d[src].num_shortest_paths
           onpath == {w \in dsts :
                        U32(S.d[src].current_length + 1) = S.d[w].current_length}
       IN [S EXCEPT
             !.d = Stored(S.d, [w \in Nodes |->
                                  IF w = src
                                  THEN S.d[w]
                                  ELSE IF w \in onpath
                                  THEN [S.d[w] EXCEPT !.to_add = U32(@ + paths_to_add),
                                                      !.trim = U32(@ + 1)]
                                  ELSE S.d[w]], SeqOf(Nodes)),
             !.b.to_add = @ \cup onpath,
             !.b.trim = @ \cup onpath,
             !.acc = @ + Cardinality(onpath)]
  ELSE S

\* NumShortestPaths' task without the trim of the destinations
NumShortestPaths_op_noTrim(h, S, src) ==
  IF /\ S.d[src].current_length # infinity
     /\ S.d[src].propogation_flag
     /\ S.d[src].num_successors # 0
  THEN LET dsts == EdgeDsts(h, src)
           paths_to_add == S.d[src].num_shortest_paths
           onpath == {w \in dsts :
                        U32(S.d[src].current_length + 1) = S.d[w].current_length}
       IN [S EXCEPT
             !.d = Stored(S.d, [w \in Nodes |->
                                  IF w = src
                                  THEN [S.d[w] EXCEPT !.propogation_flag = FALSE]
                                  ELSE IF w \in onpath
                                  THEN [S.d[w] EXCEPT !.to_add = U32(@ + paths_to_add)]
                                  ELSE S.d[w]], SeqOf(Nodes)),
             !.b.to_add = @ \cup onpath,
             !.b.trim = @ \cup onpath,
             !.acc = @ + Cardinality(onpath)]
  ELSE S

\* NumShortestPaths' task clearing the flag of a node without successors too
NumShortestPaths_op_sinks(h, S, src) ==
  IF /\ S.d[src].current_length # infinity
     /\ S.d[src].propogation_flag
  THEN LET dsts == EdgeDsts(h, src)
           paths_to_add == S.d[src].num_shortest_paths
           onpath == {w \in dsts :
                        U32(S.d[src].current_length + 1) = S.d[w].current_length}
       IN [S EXCEPT
             !.d = Stored(S.d, [w \in Nodes |->
                                  IF w = src
                                  THEN [S.d[w] EXCEPT !.propogation_flag = FALSE]
                                  ELSE IF w \in onpath
                                  THEN [S.d[w] EXCEPT !.to_add = U32(@ + paths_to_add),
                                                      !.trim = U32(@ + 1)]
                                  ELSE S.d[w]], SeqOf(Nodes)),
             !.b.to_add = @ \cup onpath,
             !.b.trim = @ \cup onpath,
             !.acc = @ + Cardinality(onpath)]
  ELSE S

\* NumShortestPaths' task pushing whether or not the flag is set
NumShortestPaths_op_anyFlag(h, S, src) ==
  IF /\ S.d[src].current_length # infinity
     /\ S.d[src].num_successors # 0
  THEN LET dsts == EdgeDsts(h, src)
           paths_to_add == S.d[src].num_shortest_paths
           onpath == {w \in dsts :
                        U32(S.d[src].current_length + 1) = S.d[w].current_length}
       IN [S EXCEPT
             !.d = Stored(S.d, [w \in Nodes |->
                                  IF w = src
                                  THEN [S.d[w] EXCEPT !.propogation_flag = FALSE]
                                  ELSE IF w \in onpath
                                  THEN [S.d[w] EXCEPT !.to_add = U32(@ + paths_to_add),
                                                      !.trim = U32(@ + 1)]
                                  ELSE S.d[w]], SeqOf(Nodes)),
             !.b.to_add = @ \cup onpath,
             !.b.trim = @ \cup onpath,
             !.acc = @ + Cardinality(onpath)]
  ELSE S

NumShortestPaths_op(h, S, src) ==
  IF /\ S.d[src].current_length # infinity
     /\ S.d[src].propogation_flag
     /\ S.d[src].num_successors # 0
  THEN LET dsts == EdgeDsts(h, src)
           paths_to_add == S.d[src].num_shortest_paths
           onpath == {w \in dsts :
                        U32(S.d[src].current_length + 1) = S.d[w].current_length}
       IN [S EXCEPT
             !.d = Stored(S.d, [w \in Nodes |->
                                  IF w = src
                                  THEN [S.d[w] EXCEPT !.propogation_flag = FALSE]
                                  ELSE IF w \in onpath
                                  THEN [S.d[w] EXCEPT !.to_add = U32(@ + paths_to_add),
                                                      !.trim = U32(@ + 1)]
                                  ELSE S.d[w]], SeqOf(Nodes)),
             !.b.to_add = @ \cup onpath,
             !.b.trim = @ \cup onpath,
             !.acc = @ + Cardinality(onpath)]
  ELSE S

\* DependencyPropChanges' task without the decrement of num_successors
DependencyPropChanges_op_keepSuccessors(h, S, src) ==
  IF S.d[src].current_length # infinity
  THEN LET d0 == S.d[src]
           added == FGtZero(d0.to_add_float)
           d1 == IF added
                 THEN [d0 EXCEPT !.dependency = FAdd(@, d0.to_add_float),
                                 !.to_add_float = FZero]
                 ELSE d0
           consumed == d1.num_successors = 0 /\ d1.propogation_flag
           trimmed == ~consumed /\ d1.trim # 0
           nsucc == d1.num_successors
           hit0 == trimmed /\ nsucc = 0
           d2 == IF consumed
                 THEN [d1 EXCEPT !.propogation_flag = FALSE,
                                 !.num_shortest_paths = 0]
                 ELSE IF trimmed
                 THEN [d1 EXCEPT !.num_successors = nsucc,
                                 !.trim = 0,
                                 !.propogation_flag = IF hit0 THEN TRUE ELSE @]
                 ELSE d1
       IN [S EXCEPT
             !.d[src] = d2,
             !.b.dependency = IF added THEN @ \cup {src} ELSE @,
             !.b.propogation_flag =
                 IF consumed \/ hit0 THEN @ \cup {src} ELSE @,
             !.af = @ \/ (consumed /\ d1.trim # 0)
                      \/ (trimmed /\ UGt(d1.trim, d1.num_successors))
                      \/ (hit0 /\ d1.propogation_flag)]
  ELSE S

\* DependencyPropChanges' task without the reset of to_add_float
DependencyPropChanges_op_keepToAdd(h, S, src) ==
  IF S.d[src].current_length # infinity
  THEN LET d0 == S.d[src]
           added == FGtZero(d0.to_add_float)
           d1 == IF added
                 THEN [d0 EXCEPT !.dependency = FAdd(@, d0.to_add_float)]
                 ELSE d0
           consumed == d1.num_successors = 0 /\ d1.propogation_flag
           trimmed == ~consumed /\ d1.trim # 0
           nsucc == IF trimmed THEN U32(d1.num_successors - d1.trim)
                    ELSE d1.num_successors
           hit0 == trimmed /\ nsucc = 0
           d2 == IF consumed
                 THEN [d1 EXCEPT !.propogation_flag = FALSE,
                                 !.num_shortest_paths = 0]
                 ELSE IF trimmed
                 THEN [d1 EXCEPT !.num_successors = nsucc,
                                 !.trim = 0,
                                 !.propogation_flag = IF hit0 THEN TRUE ELSE @]
                 ELSE d1
       IN [S EXCEPT
             !.d[src] = d2,
             !.b.dependency = IF added THEN @ \cup {src} ELSE @,
             !.b.propogation_flag =
                 IF consumed \/ hit0 THEN @ \cup {src} ELSE @,
             !.af = @ \/ (consumed /\ d1.trim # 0)
                      \/ (trimmed /\ UGt(d1.trim, d1.num_successors))
                      \/ (hit0 /\ d1.propogation_flag)]
  ELSE S

\* DependencyPropChanges' task without the reset of the flag of a node whose
\* dependency has been taken
DependencyPropChanges_op_keepFlag(h, S, src) ==
  IF S.d[src].current_length # infinity
  THEN LET d0 == S.d[src]
           added == FGtZero(d0.to_add_float)
           d1 == IF added
                 THEN [d0 EXCEPT !.dependency = FAdd(@, d0.to_add_float),
                                 !.to_add_float = FZero]
                 ELSE d0
           consumed == d1.num_successors = 0 /\ d1.propogation_flag
           trimmed == ~consumed /\ d1.trim # 0
           nsucc == IF trimmed THEN U32(d1.num_successors - d1.trim)
                    ELSE d1.num_successors
           hit0 == trimmed /\ nsucc = 0
           d2 == IF consumed
                 THEN [d1 EXCEPT !.num_shortest_paths = 0]
                 ELSE IF trimmed
                 THEN [d1 EXCEPT !.num_successors = nsucc,
                                 !.trim = 0,
                                 !.propogation_flag = IF hit0 THEN TRUE ELSE @]
                 ELSE d1
       IN [S EXCEPT
             !.d[src] = d2,
             !.b.dependency = IF added THEN @ \cup {src} ELSE @,
             !.b.propogation_flag =
                 IF consumed \/ hit0 THEN @ \cup {src} ELSE @,
             !.af = @ \/ (consumed /\ d1.trim # 0)
                      \/ (trimmed /\ UGt(d1.trim, d1.num_successors))
                      \/ (hit0 /\ d1.propogation_flag)]
  ELSE S

DependencyPropChanges_op(h, S, src) ==
  IF S.d[src].current_length # infinity
  THEN LET d0 == S.d[src]
           added == FGtZero(d0.to_add_float)
           d1 == IF added
                 THEN [d0 EXCEPT !.dependency = FAdd(@, d0.to_add_float),
                                 !.to_add_float = FZero]
                 ELSE d0
           consumed == d1.num_successors = 0 /\ d1.propogation_flag
           trimmed == ~consumed /\ d1.trim # 0
           nsucc == IF trimmed THEN U32(d1.num_successors - d1.trim)
                    ELSE d1.num_successors
           hit0 == trimmed /\ nsucc = 0
           d2 == IF consumed
                 THEN [d1 EXCEPT !.propogation_flag = FALSE,
                                 !.num_shortest_paths = 0]
                 ELSE IF trimmed
                 THEN [d1 EXCEPT !.num_successors = nsucc,
                                 !.trim = 0,
                                 !.propogation_flag = IF hit0 THEN TRUE ELSE @]
                 ELSE d1
       IN [S EXCEPT
             !.d[src] = d2,
             !.b.dependency = IF added THEN @ \cup {src} ELSE @,
             !.b.propogation_flag =
                 IF consumed \/ hit0 THEN @ \cup {src} ELSE @,
             !.af = @ \/ (consumed /\ d1.trim # 0)
                      \/ (trimmed /\ UGt(d1.trim, d1.num_successors))
                      \/ (hit0 /\ d1.propogation_flag)]
  ELSE S

\* DependencyPropogation's task clearing the flag of the successors it has read
DependencyPropogation_op_clearDst(h, S, src) ==
  IF S.d[src].current_length # infinity /\ S.d[src].num_successors # 0
  THEN IF src # current_src_node
       THEN LET dsts == EdgeDsts(h, src)
                ready == {w \in dsts :
                            /\ S.d[w].propogation_flag
                            /\ U32(S.d[src].current_length + 1)
                                 = S.d[w].current_length}
                contrib == [w \in ready |->
                              FMul(FDiv(FromInt(S.d[src].num_shortest_paths),
                                        FromInt(S.d[w].num_shortest_paths)),
                                   FAdd(FOne, S.d[w].dependency))]
            IN [S EXCEPT
                  !.d = [w \in Nodes |->
                           IF w = src
                           THEN [S.d[w] EXCEPT
                                   !.trim = U32(@ + Cardinality(ready)),
                                   !.to_add_float = FAdd(@, FSum(contrib, ready))]
                           ELSE IF w \in ready
                           THEN [S.d[w] EXCEPT !.propogation_flag = FALSE]
                           ELSE S.d[w]],
                  !.b.trim = IF ready # {} THEN @ \cup {src} ELSE @,
                  !.b.to_add_float = IF ready # {} THEN @ \cup {src} ELSE @,
                  !.acc = @ + Cardinality(ready)]
       ELSE [S EXCEPT !.d[src].num_successors = 0]
  ELSE S

\* DependencyPropogation's task leaving the source's num_successors alone
DependencyPropogation_op_keepSuccessors(h, S, src) ==
  IF S.d[src].current_length # infinity /\ S.d[src].num_successors # 0
  THEN IF src # current_src_node
       THEN LET dsts == EdgeDsts(h, src)
                ready == {w \in dsts :
                            /\ S.d[w].propogation_flag
                            /\ U32(S.d[src].current_length + 1)
                                 = S.d[w].current_length}
                contrib == [w \in ready |->
                              FMul(FDiv(FromInt(S.d[src].num_shortest_paths),
                                        FromInt(S.d[w].num_shortest_paths)),
                                   FAdd(FOne, S.d[w].dependency))]
            IN [S EXCEPT
                  !.d[src] = [@ EXCEPT
                                !.trim = U32(@ + Cardinality(ready)),
                                !.to_add_float = FAdd(@, FSum(contrib, ready))],
                  !.b.trim = IF ready # {} THEN @ \cup {src} ELSE @,
                  !.b.to_add_float = IF ready # {} THEN @ \cup {src} ELSE @,
                  !.acc = @ + Cardinality(ready)]
       ELSE S
  ELSE S

\* DependencyPropogation's task with dependency(dst) in place of 1 + dependency(dst)
DependencyPropogation_op_noPlusOne(h, S, src) ==
  IF S.d[src].current_length # infinity /\ S.d[src].num_successors # 0
  THEN IF src # current_src_node
       THEN LET dsts == EdgeDsts(h, src)
                ready == {w \in dsts :
                            /\ S.d[w].propogation_flag
                            /\ U32(S.d[src].current_length + 1)
                                 = S.d[w].current_length}
                contrib == [w \in ready |->
                              FMul(FDiv(FromInt(S.d[src].num_shortest_paths),
                                        FromInt(S.d[w].num_shortest_paths)),
                                   S.d[w].dependency)]
            IN [S EXCEPT
                  !.d[src] = [@ EXCEPT
                                !.trim = U32(@ + Cardinality(ready)),
                                !.to_add_float = FAdd(@, FSum(contrib, ready))],
                  !.b.trim = IF ready # {} THEN @ \cup {src} ELSE @,
                  !.b.to_add_float = IF ready # {} THEN @ \cup {src} ELSE @,
                  !.acc = @ + Cardinality(ready)]
       ELSE [S EXCEPT !.d[src].num_successors = 0]
  ELSE S

\* DependencyPropogation's task without the exclusion of the current source
DependencyPropogation_op_withSource(h, S, src) ==
  IF S.d[src].current_length # infinity /\ S.d[src].num_successors # 0
  THEN IF TRUE
       THEN LET dsts == EdgeDsts(h, src)
                ready == {w \in dsts :
                            /\ S.d[w].propogation_flag
                            /\ U32(S.d[src].current_length + 1)
                                 = S.d[w].current_length}
                contrib == [w \in ready |->
                              FMul(FDiv(FromInt(S.d[src].num_shortest_paths),
                                        FromInt(S.d[w].num_shortest_paths)),
                                   FAdd(FOne, S.d[w].dependency))]
            IN [S EXCEPT
                  !.d[src] = [@ EXCEPT
                                !.trim = U32(@ + Cardinality(ready)),
                                !.to_add_float = FAdd(@, FSum(contrib, ready))],
                  !.b.trim = IF ready # {} THEN @ \cup {src} ELSE @,
                  !.b.to_add_float = IF ready # {} THEN @ \cup {src} ELSE @,
                  !.acc = @ + Cardinality(ready)]
       ELSE [S EXCEPT !.d[src].num_successors = 0]
  ELSE S

DependencyPropogation_op(h, S, src) ==
  IF S.d[src].current_length # infinity /\ S.d[src].num_successors # 0
  THEN IF src # current_src_node
       THEN LET dsts == EdgeDsts(h, src)
                ready == {w \in dsts :
                            /\ S.d[w].propogation_flag
                            /\ U32(S.d[src].current_length + 1)
                                 = S.d[w].current_length}
                contrib == [w \in ready |->
                              FMul(FDiv(FromInt(S.d[src].num_shortest_paths),
                                        FromInt(S.d[w].num_shortest_paths)),
                                   FAdd(FOne, S.d[w].dependency))]
            IN [S EXCEPT
                  !.d[src] = [@ EXCEPT
                                !.trim = U32(@ + Cardinality(ready)),
                                !.to_add_float = FAdd(@, FSum(contrib, ready))],
                  !.b.trim = IF ready # {} THEN @ \cup {src} ELSE @,
                  !.b.to_add_float = IF ready # {} THEN @ \cup {src} ELSE @,
                  !.acc = @ + Cardinality(ready)]
       ELSE [S EXCEPT !.d[src].num_successors = 0]
  ELSE S

\* BC's task storing the dependency instead of adding it
BC_op_overwrite(h, S, src) ==
  [S EXCEPT !.d[src] =
     [@ EXCEPT !.betweeness_centrality = S.d[src].dependency,
               !.dependency = FZero]]

\* BC's task resetting the distance along with the dependency
BC_op_resetLength(h, S, src) ==
  [S EXCEPT !.d[src] =
     [@ EXCEPT !.betweeness_centrality = FAdd(@, S.d[src].dependency),
               !.current_length = infinity,
               !.dependency = FZero]]

BC_op(h, S, src) ==
  [S EXCEPT !.d[src] =
     [@ EXCEPT !.betweeness_centrality = FAdd(@, S.d[src].dependency),
               !.dependency = FZero]]

\* Galois::do_all: the functor applied to the nodes of `order`, one task each
TaskOp(kind, h, S, src) ==
  CASE kind = "InitializeGraph" -> InitializeGraph_op(h, S, src)
    [] kind = "InitializeIteration" -> InitializeIteration_op(h, S, src)
    [] kind = "FirstIterationSSSP" -> FirstIterationSSSP_op(h, S, src)
    [] kind = "SSSP" -> SSSP_op(h, S, src)
    [] kind = "PredAndSucc" -> PredAndSucc_op(h, S, src)
    [] kind = "NumShortestPathsChanges" -> NumShortestPathsChanges_op(h, S, src)
    [] kind = "NumShortestPaths" -> NumShortestPaths_op(h, S, src)
    [] kind = "DependencyPropChanges" -> DependencyPropChanges_op(h, S, src)
    [] kind = "DependencyPropogation" -> DependencyPropogation_op(h, S, src)
    [] kind = "BC" -> BC_op(h, S, src)

RECURSIVE do_all(_, _, _, _)
do_all(kind, h, S, order) ==
  IF order = <<>> THEN S
  ELSE do_all(kind, h, TaskOp(kind, h, S, Head(order)), Tail(order))


(***************************************************************************)
(* sync<WriteRole, ReadRole, Reduce, Bitset?>(field), specification 4.1:   *)
(* the values of the write-role replicas (of the dirty ones, with a        *)
(* bitset) are reduced into the owner's value, the result is given to      *)
(* every read-role replica, and the bitset is cleared.  `last` orders the  *)
(* arrival of the hosts' messages at an owner (the last overwrite wins).   *)
(***************************************************************************)
RoleMatches(role, h, v) ==
  CASE role = "Source" -> IsSource(h, v)
    [] role = "Destination" -> IsDestination(h, v)
    [] role = "Any" -> isLocal(h, v)

Writers(X, field, writeRole, useBitset, v) ==
  {h \in Hosts : /\ ~isOwned(h, v)
                 /\ isLocal(h, v)
                 /\ RoleMatches(writeRole, h, v)
                 /\ (useBitset => v \in X.bitset[h][field])}

RECURSIVE MinOver(_, _, _)
MinOver(f, S, m) ==
  IF S = {} THEN m
  ELSE LET x == CHOOSE y \in S : TRUE IN MinOver(f, S \ {x}, UMin(m, f[x]))

Reduced(X, field, reduce, W, last, v) ==
  LET own == X.nd[graph.owner[v]][v][field]
      val == [h \in W |-> X.nd[h][v][field]]
  IN CASE reduce = "min" -> MinOver(val, W, own)
       [] reduce = "add" -> U32(own + SumOver(val, W))
       [] reduce = "add_float" -> FAdd(own, FSum(val, W))
       [] reduce = "set" ->
            IF W = {} THEN own
            ELSE val[CHOOSE h \in W :
                       \A g \in W : (g - last) % NumHosts <= (h - last) % NumHosts]

\* sync that reduces into the owner's value and gives the result to no mirror
sync_noBroadcast(X, field, writeRole, readRole, reduce, useBitset, last) ==
  LET red == [v \in Nodes |->
                Reduced(X, field, reduce,
                        Writers(X, field, writeRole, useBitset, v), last, v)]
      got == [h \in Hosts |->
                Stored(X.nd[h],
                       [v \in Nodes |->
                          IF isOwned(h, v)
                          THEN [X.nd[h][v] EXCEPT ![field] = red[v]]
                          ELSE X.nd[h][v]],
                       SeqOf(Nodes))]
  IN [nd |-> Stored(X.nd, got, SeqOf(Hosts)),
      bitset |-> IF useBitset
                 THEN Stored(X.bitset,
                             [h \in Hosts |-> [X.bitset[h] EXCEPT ![field] = {}]],
                             SeqOf(Hosts))
                 ELSE X.bitset]

sync(X, field, writeRole, readRole, reduce, useBitset, last) ==
  LET red == [v \in Nodes |->
                Reduced(X, field, reduce,
                        Writers(X, field, writeRole, useBitset, v), last, v)]
      got == [h \in Hosts |->
                Stored(X.nd[h],
                       [v \in Nodes |->
                          IF \/ isOwned(h, v)
                             \/ (isLocal(h, v) /\ RoleMatches(readRole, h, v))
                          THEN [X.nd[h][v] EXCEPT ![field] = red[v]]
                          ELSE X.nd[h][v]],
                       SeqOf(Nodes))]
  IN [nd |-> Stored(X.nd, got, SeqOf(Hosts)),
      bitset |-> IF useBitset
                 THEN Stored(X.bitset,
                             [h \in Hosts |-> [X.bitset[h] EXCEPT ![field] = {}]],
                             SeqOf(Hosts))
                 ELSE X.bitset]

\* the same sync call for one field after the other
RECURSIVE syncs(_, _, _, _, _, _, _)
syncs(X, fields, writeRole, readRole, reduce, useBitset, last) ==
  IF fields = <<>> THEN X
  ELSE syncs(sync(X, Head(fields), writeRole, readRole, reduce, useBitset, last),
             Tail(fields), writeRole, readRole, reduce, useBitset, last)

Cur == [nd |-> nd, bitset |-> bitset]

ArrivalOrders == IF NumHosts <= 2 THEN {0} ELSE Hosts

(***************************************************************************)
(* A do_all pass on every host                                             *)
(***************************************************************************)
HostState(h, acc) == [d |-> nd[h], b |-> bitset[h], acc |-> acc, af |-> FALSE]

Pass(kind) == [h \in Hosts |-> do_all(kind, h, HostState(h, 0), LocalRange(h))]

ApplyPass(R) ==
  /\ nd' = [h \in Hosts |-> R[h].d]
  /\ bitset' = [h \in Hosts |-> R[h].b]
  /\ assert_failed' = (assert_failed \/ \E h \in Hosts : R[h].af)

ApplySync(Y) ==
  /\ nd' = Y.nd
  /\ bitset' = Y.bitset

reduce(name) == SumOver(DGAccumulator_accum[name], Hosts)

\* the hosts take the same branch of a test of their accum_result
SameBranch(r) == \A h, g \in Hosts : (r[h] # 0) = (r[g] # 0)

Accum0 == [h \in Hosts |-> 0]

(***************************************************************************)
(* The inputs of the model: graphs, partitionings and command lines        *)
(***************************************************************************)
Diamond == {<<0, 1>>, <<0, 2>>, <<1, 3>>, <<2, 3>>}
PathGraph == {<<0, 1>>, <<1, 2>>, <<2, 3>>}
BackDiamond == {<<1, 0>>, <<1, 2>>, <<0, 3>>, <<2, 3>>}
SingleEdge == {<<0, 1>>}
TwoCycle == {<<0, 1>>, <<1, 0>>}
NamedGraphs == {Diamond, PathGraph, BackDiamond, SingleEdge, TwoCycle}
SourceRangeGraphs == {PathGraph, SingleEdge, TwoCycle}

CandidateEdges == {<<0, 1>>, <<1, 0>>, <<0, 2>>, <<1, 2>>, <<2, 3>>}

Graphs ==
  {E \in SUBSET CandidateEdges : Cardinality(E) <= MaxEdges} \cup NamedGraphs

\* owner maps, up to renaming of the hosts
Owners ==
  {o \in [Nodes -> Hosts] :
     /\ o[0] = 0
     /\ \A v \in Nodes : \A g \in Hosts :
          g < o[v] => \E u \in Nodes : u < v /\ o[u] = g}

\* edge cut: every edge lives on the owner of its source; vertex cut: at most
\* MaxCut edges live on the next host instead
Partitionings(E, o) ==
  {[E |-> E, owner |-> o, ehost |-> [e \in E |-> o[e[1]]], vcut |-> FALSE]}
  \cup
  {[E |-> E, owner |-> o, vcut |-> TRUE,
    ehost |-> [e \in E |-> IF e \in M THEN (o[e[1]] + 1) % NumHosts
                           ELSE o[e[1]]]] :
     M \in {K \in SUBSET E : Cardinality(K) <= MaxCut}}

\* graph is a partitioning of a graph of GS
IsPartitioned(GS) ==
  \E E \in GS : \E o \in Owners : graph \in Partitionings(E, o)

InitProgram ==
  /\ nd = [h \in Hosts |-> [v \in Nodes |-> NodeData0]]
  /\ bitset = [h \in Hosts |-> Bitsets0]
  /\ DGAccumulator_accum =
       [s \in {"SSSP", "NumShortestPaths", "DependencyPropogation"} |-> Accum0]
  /\ accum_result = [h \in Hosts |-> 0]
  /\ iterations = 0
  /\ current_src_node = 0
  /\ i = 0
  /\ end_i = 0
  /\ run = 0
  /\ hid = 0
  /\ assert_failed = FALSE
  /\ pc = "InitializeGraph"
  /\ dep_at_exit = [v \in Nodes |-> FZero]
  /\ bc_expected = [v \in Nodes |-> FZero]
  /\ bc_first_run = [v \in Nodes |-> FZero]
  /\ processed = <<>>

\* one run: a single source, or the sources 0 .. MaxSources - 1
Init ==
  /\ IsPartitioned(Graphs)
  /\ \/ /\ singleSourceBC = TRUE
        /\ startSource \in 0 .. MaxStart
        /\ numberOfSources = 0
     \/ /\ singleSourceBC = FALSE
        /\ startSource = 0
        /\ numberOfSources = MaxSources
  /\ numRuns = 1
  /\ sourceOrder = <<>>
  /\ maxIterations = DefaultMaxIterations
  /\ InitProgram

\* the sources 0 .. MaxSources - 1 on the named graphs, run MaxRuns times
InitRerun ==
  /\ IsPartitioned(NamedGraphs)
  /\ singleSourceBC = FALSE
  /\ startSource = 0
  /\ numberOfSources = MaxSources
  /\ numRuns = MaxRuns
  /\ sourceOrder = <<>>
  /\ maxIterations = DefaultMaxIterations
  /\ InitProgram

\* the same sources, taken in increasing order by run 0 and in the order
\* sourceOrder by the later runs
SourceOrders ==
  {q \in [0 .. (MaxSources - 1) -> 0 .. (MaxSources - 1)] :
     \A a, b \in 0 .. (MaxSources - 1) : a # b => q[a] # q[b]}

InitOrder ==
  /\ IsPartitioned(NamedGraphs)
  /\ singleSourceBC = FALSE
  /\ startSource = 0
  /\ numberOfSources = MaxSources
  /\ numRuns = 2
  /\ sourceOrder \in SourceOrders
  /\ maxIterations = DefaultMaxIterations
  /\ InitProgram

\* one single-source run on the named graphs with a small maxIterations
InitMaxIterations ==
  /\ IsPartitioned(NamedGraphs)
  /\ singleSourceBC = TRUE
  /\ startSource = 0
  /\ numberOfSources = 0
  /\ numRuns = 1
  /\ sourceOrder = <<>>
  /\ maxIterations \in 1 .. MaxRounds
  /\ InitProgram

\* one run on the named graphs in each mode of the command line: a single
\* source, a count of sources, and no count
InitSources ==
  /\ IsPartitioned(SourceRangeGraphs)
  /\ \/ singleSourceBC = TRUE /\ numberOfSources = 0
     \/ singleSourceBC = FALSE /\ numberOfSources \in {0, MaxSources}
  /\ startSource \in 0 .. MaxStart
  /\ numRuns = 1
  /\ sourceOrder = <<>>
  /\ maxIterations = DefaultMaxIterations
  /\ InitProgram

(***************************************************************************)
(* InitializeGraph::go                                                      *)
(***************************************************************************)
InitializeGraph_go ==
  /\ pc = "InitializeGraph"
  /\ ApplyPass(Pass("InitializeGraph"))
  /\ bc_expected' = [v \in Nodes |-> FZero]
  /\ pc' = "InitializeGraph_sync"
  /\ UNCHANGED <<config, DGAccumulator_accum, accum_result, iterations,
                 current_src_node, i, end_i, run, hid, dep_at_exit,
                 bc_first_run, processed>>

InitializeGraph_sync ==
  /\ pc = "InitializeGraph_sync"
  /\ \E last \in ArrivalOrders :
       ApplySync(syncs(Cur, <<"num_shortest_paths", "num_successors",
                              "num_predecessors", "trim", "to_add",
                              "to_add_float", "propogation_flag">>,
                       "Source", "Destination", "set", FALSE, last))
  /\ pc' = "BC_go"
  /\ UNCHANGED <<config, DGAccumulator_accum, accum_result, iterations,
                 current_src_node, i, end_i, run, hid, assert_failed, history>>

(***************************************************************************)
(* BC::go                                                                   *)
(***************************************************************************)
BC_go ==
  /\ pc = "BC_go"
  /\ i' = startSource
  /\ end_i' = IF singleSourceBC THEN startSource + 1
              ELSE IF numberOfSources # 0 THEN startSource + numberOfSources
              ELSE totalNodes
  /\ pc' = "BC_for"
  /\ processed' = <<>>
  /\ UNCHANGED <<config, nd, bitset, DGAccumulator_accum, accum_result,
                 iterations, current_src_node, run, hid, assert_failed,
                 dep_at_exit, bc_expected, bc_first_run>>

BC_for ==
  /\ pc = "BC_for"
  /\ IF i < end_i
     THEN /\ current_src_node' = i
          /\ processed' = Append(processed, i)
          /\ pc' = "InitializeIteration"
     ELSE /\ pc' = "main_next"
          /\ UNCHANGED <<current_src_node, processed>>
  /\ UNCHANGED <<config, nd, bitset, DGAccumulator_accum, accum_result,
                 iterations, i, end_i, run, hid, assert_failed, dep_at_exit,
                 bc_expected, bc_first_run>>

\* BC::go's loop with the sources of a re-run taken in the order sourceOrder
BC_for_ordered ==
  /\ pc = "BC_for"
  /\ IF i < end_i
     THEN /\ current_src_node' = IF run = 0 THEN i ELSE sourceOrder[i]
          /\ processed' = Append(processed, current_src_node')
          /\ pc' = "InitializeIteration"
     ELSE /\ pc' = "main_next"
          /\ UNCHANGED <<current_src_node, processed>>
  /\ UNCHANGED <<config, nd, bitset, DGAccumulator_accum, accum_result,
                 iterations, i, end_i, run, hid, assert_failed, dep_at_exit,
                 bc_expected, bc_first_run>>

BC_do_all ==
  /\ pc = "BC"
  /\ ApplyPass(Pass("BC"))
  /\ i' = i + 1
  /\ pc' = "BC_for"
  /\ UNCHANGED <<config, DGAccumulator_accum, accum_result, iterations,
                 current_src_node, end_i, run, hid, history>>

(***************************************************************************)
(* InitializeIteration::go                                                  *)
(***************************************************************************)
InitializeIteration_go ==
  /\ pc = "InitializeIteration"
  /\ ApplyPass(Pass("InitializeIteration"))
  /\ pc' = "InitializeIteration_sync"
  /\ UNCHANGED <<config, DGAccumulator_accum, accum_result, iterations,
                 current_src_node, i, end_i, run, hid, history>>

InitializeIteration_sync ==
  /\ pc = "InitializeIteration_sync"
  /\ \E last \in ArrivalOrders :
       ApplySync(syncs(Cur, <<"dependency", "current_length">>,
                       "Source", "Destination", "set", FALSE, last))
  /\ pc' = "FirstIterationSSSP"
  /\ UNCHANGED <<config, DGAccumulator_accum, accum_result, iterations,
                 current_src_node, i, end_i, run, hid, assert_failed, history>>

(***************************************************************************)
(* FirstIterationSSSP::go and SSSP::go                                      *)
(***************************************************************************)
FirstIterationSSSP_go ==
  /\ pc = "FirstIterationSSSP"
  /\ ApplyPass([h \in Hosts |->
                  do_all("FirstIterationSSSP", h, HostState(h, 0),
                         IF current_src_node \in Nodes /\ isLocal(h, current_src_node)
                         THEN <<current_src_node>> ELSE <<>>)])
  /\ pc' = "FirstIterationSSSP_sync"
  /\ UNCHANGED <<config, DGAccumulator_accum, accum_result, iterations,
                 current_src_node, i, end_i, run, hid, history>>

FirstIterationSSSP_sync ==
  /\ pc = "FirstIterationSSSP_sync"
  /\ ApplySync(sync(Cur, "current_length", "Destination", "Source", "min", TRUE, 0))
  /\ iterations' = 1
  /\ hid' = 0
  /\ pc' = "SSSP"
  /\ UNCHANGED <<config, DGAccumulator_accum, accum_result, current_src_node,
                 i, end_i, run, assert_failed, history>>

\* the tasks of one host's do_all run in any order
Orders(S) == {q \in [1 .. Cardinality(S) -> S] :
                \A a, b \in 1 .. Cardinality(S) : a # b => q[a] # q[b]}

SSSP_do_all ==
  /\ pc = "SSSP"
  /\ \E R \in {do_all("SSSP", hid, HostState(hid, 0), order) :
                   order \in Orders(LocalNodes(hid))} :
       /\ nd' = [nd EXCEPT ![hid] = R.d]
       /\ bitset' = [bitset EXCEPT ![hid] = R.b]
       /\ DGAccumulator_accum' =
            [DGAccumulator_accum EXCEPT !["SSSP"][hid] = R.acc]
  /\ IF hid + 1 < NumHosts
     THEN hid' = hid + 1 /\ pc' = "SSSP"
     ELSE hid' = 0 /\ pc' = "SSSP_reduce"
  /\ UNCHANGED <<config, accum_result, iterations, current_src_node, i, end_i,
                 run, assert_failed, history>>

\* SSSP::go's end of round with each host testing its own count, not the
\* reduced one
SSSP_reduce_local ==
  /\ pc = "SSSP_reduce"
  /\ iterations' = iterations + 1
  /\ accum_result' = [h \in Hosts |-> DGAccumulator_accum["SSSP"][h]]
  /\ pc' = IF SameBranch(accum_result') THEN "SSSP_sync" ELSE "blocked"
  /\ UNCHANGED <<config, nd, bitset, DGAccumulator_accum, current_src_node, i,
                 end_i, run, hid, assert_failed, history>>

SSSP_reduce ==
  /\ pc = "SSSP_reduce"
  /\ iterations' = iterations + 1
  /\ accum_result' = [h \in Hosts |-> reduce("SSSP")]
  /\ pc' = IF SameBranch(accum_result') THEN "SSSP_sync" ELSE "blocked"
  /\ UNCHANGED <<config, nd, bitset, DGAccumulator_accum, current_src_node, i,
                 end_i, run, hid, assert_failed, history>>

SSSP_sync_cur_len ==
  /\ pc = "SSSP_sync"
  /\ accum_result[0] # 0
  /\ ApplySync(sync(Cur, "current_length", "Destination", "Source", "min", TRUE, 0))
  /\ pc' = "SSSP"
  /\ UNCHANGED <<config, DGAccumulator_accum, accum_result, iterations,
                 current_src_node, i, end_i, run, hid, assert_failed, history>>

SSSP_sync_cur_len_any_v ==
  /\ pc = "SSSP_sync"
  /\ accum_result[0] = 0
  /\ is_vertex_cut
  /\ ApplySync(sync(Cur, "current_length", "Destination", "Any", "min", FALSE, 0))
  /\ pc' = "PredAndSucc"
  /\ UNCHANGED <<config, DGAccumulator_accum, accum_result, iterations,
                 current_src_node, i, end_i, run, hid, assert_failed, history>>

SSSP_sync_cur_len_any ==
  /\ pc = "SSSP_sync"
  /\ accum_result[0] = 0
  /\ ~is_vertex_cut
  /\ ApplySync(sync(Cur, "current_length", "Destination", "Any", "min", TRUE, 0))
  /\ pc' = "PredAndSucc"
  /\ UNCHANGED <<config, DGAccumulator_accum, accum_result, iterations,
                 current_src_node, i, end_i, run, hid, assert_failed, history>>

(***************************************************************************)
(* PredAndSucc::go                                                          *)
(***************************************************************************)
PredAndSucc_go ==
  /\ pc = "PredAndSucc"
  /\ ApplyPass(Pass("PredAndSucc"))
  /\ pc' = "PredAndSucc_sync_pred"
  /\ UNCHANGED <<config, DGAccumulator_accum, accum_result, iterations,
                 current_src_node, i, end_i, run, hid, history>>

PredAndSucc_sync_pred ==
  /\ pc = "PredAndSucc_sync_pred"
  /\ ApplySync(sync(Cur, "num_predecessors", "Destination", "Source", "add", TRUE, 0))
  /\ pc' = "PredAndSucc_sync_succ"
  /\ UNCHANGED <<config, DGAccumulator_accum, accum_result, iterations, current_src_node,
                 i, end_i, run, hid, assert_failed, history>>

PredAndSucc_sync_succ ==
  /\ pc = "PredAndSucc_sync_succ"
  /\ ApplySync(sync(Cur, "num_successors", "Source", "Any", "add", TRUE, 0))
  /\ iterations' = 0
  /\ pc' = "NumShortestPaths"
  /\ UNCHANGED <<config, DGAccumulator_accum, accum_result, current_src_node,
                 i, end_i, run, hid, assert_failed, history>>

(***************************************************************************)
(* NumShortestPaths::go and NumShortestPathsChanges::go                     *)
(***************************************************************************)
NumShortestPaths_do_all ==
  /\ pc = "NumShortestPaths"
  /\ LET R == Pass("NumShortestPaths")
     IN /\ ApplyPass(R)
        /\ DGAccumulator_accum' =
             [DGAccumulator_accum EXCEPT !["NumShortestPaths"] = [h \in Hosts |-> R[h].acc]]
  /\ pc' = "NumShortestPaths_sync_trim"
  /\ UNCHANGED <<config, accum_result, iterations, current_src_node, i, end_i,
                 run, hid, history>>

NumShortestPaths_sync_trim ==
  /\ pc = "NumShortestPaths_sync_trim"
  /\ ApplySync(sync(Cur, "trim", "Destination", "Source", "add", TRUE, 0))
  /\ pc' = "NumShortestPaths_sync_to_add"
  /\ UNCHANGED <<config, DGAccumulator_accum, accum_result, iterations, current_src_node,
                 i, end_i, run, hid, assert_failed, history>>

NumShortestPaths_sync_to_add ==
  /\ pc = "NumShortestPaths_sync_to_add"
  /\ ApplySync(sync(Cur, "to_add", "Destination", "Source", "add", TRUE, 0))
  /\ pc' = "NumShortestPathsChanges"
  /\ UNCHANGED <<config, DGAccumulator_accum, accum_result, iterations, current_src_node,
                 i, end_i, run, hid, assert_failed, history>>

NumShortestPathsChanges_go ==
  /\ pc = "NumShortestPathsChanges"
  /\ ApplyPass(Pass("NumShortestPathsChanges"))
  /\ pc' = "NumShortestPaths_reduce"
  /\ UNCHANGED <<config, DGAccumulator_accum, accum_result, iterations,
                 current_src_node, i, end_i, run, hid, history>>

NumShortestPaths_reduce ==
  /\ pc = "NumShortestPaths_reduce"
  /\ iterations' = iterations + 1
  /\ accum_result' = [h \in Hosts |-> reduce("NumShortestPaths")]
  /\ pc' = IF ~SameBranch(accum_result') THEN "blocked"
           ELSE IF accum_result'[0] = 0
           THEN "NumShortestPaths_sync_num_paths" ELSE "NumShortestPaths"
  /\ UNCHANGED <<config, nd, bitset, DGAccumulator_accum, current_src_node, i,
                 end_i, run, hid, assert_failed, history>>

\* NumShortestPaths::go leaving its loop without the sync of num_shortest_paths
NumShortestPaths_sync_num_paths_skip ==
  /\ pc = "NumShortestPaths_sync_num_paths"
  /\ pc' = "NumShortestPaths_sync_prop_flag"
  /\ UNCHANGED <<config, nd, bitset, DGAccumulator_accum, accum_result, iterations,
                 current_src_node, i, end_i, run, hid, assert_failed, history>>

NumShortestPaths_sync_num_paths ==
  /\ pc = "NumShortestPaths_sync_num_paths"
  /\ \E last \in ArrivalOrders :
       ApplySync(sync(Cur, "num_shortest_paths", "Source", "Destination", "set", TRUE, last))
  /\ pc' = "NumShortestPaths_sync_prop_flag"
  /\ UNCHANGED <<config, DGAccumulator_accum, accum_result, iterations, current_src_node,
                 i, end_i, run, hid, assert_failed, history>>

NumShortestPaths_sync_prop_flag ==
  /\ pc = "NumShortestPaths_sync_prop_flag"
  /\ \E last \in ArrivalOrders :
       ApplySync(sync(Cur, "propogation_flag", "Source", "Destination", "set", TRUE, last))
  /\ iterations' = 0
  /\ pc' = "DependencyPropogation"
  /\ UNCHANGED <<config, DGAccumulator_accum, accum_result, current_src_node,
                 i, end_i, run, hid, assert_failed, history>>

(***************************************************************************)
(* DependencyPropogation::go and DependencyPropChanges::go                  *)
(***************************************************************************)
DependencyPropogation_do_all ==
  /\ pc = "DependencyPropogation"
  /\ LET R == Pass("DependencyPropogation")
     IN /\ ApplyPass(R)
        /\ DGAccumulator_accum' =
             [DGAccumulator_accum EXCEPT !["DependencyPropogation"] = [h \in Hosts |-> R[h].acc]]
  /\ pc' = "DependencyPropogation_sync_trim"
  /\ UNCHANGED <<config, accum_result, iterations, current_src_node, i, end_i,
                 run, hid, history>>

DependencyPropogation_sync_trim ==
  /\ pc = "DependencyPropogation_sync_trim"
  /\ ApplySync(sync(Cur, "trim", "Source", "Source", "add", TRUE, 0))
  /\ pc' = "DependencyPropogation_sync_to_add_float"
  /\ UNCHANGED <<config, DGAccumulator_accum, accum_result, iterations, current_src_node,
                 i, end_i, run, hid, assert_failed, history>>

DependencyPropogation_sync_to_add_float ==
  /\ pc = "DependencyPropogation_sync_to_add_float"
  /\ ApplySync(sync(Cur, "to_add_float", "Source", "Source", "add_float", TRUE, 0))
  /\ pc' = "DependencyPropChanges"
  /\ UNCHANGED <<config, DGAccumulator_accum, accum_result, iterations, current_src_node,
                 i, end_i, run, hid, assert_failed, history>>

DependencyPropChanges_go ==
  /\ pc = "DependencyPropChanges"
  /\ ApplyPass(Pass("DependencyPropChanges"))
  /\ pc' = "DependencyPropChanges_sync_prop_flag"
  /\ UNCHANGED <<config, DGAccumulator_accum, accum_result, iterations,
                 current_src_node, i, end_i, run, hid, history>>

DependencyPropChanges_sync_prop_flag ==
  /\ pc = "DependencyPropChanges_sync_prop_flag"
  /\ \E last \in ArrivalOrders :
       ApplySync(sync(Cur, "propogation_flag", "Source", "Destination", "set", TRUE, last))
  /\ pc' = "DependencyPropogation_reduce"
  /\ UNCHANGED <<config, DGAccumulator_accum, accum_result, iterations, current_src_node,
                 i, end_i, run, hid, assert_failed, history>>

OwnerDependency == [v \in Nodes |-> nd[graph.owner[v]][v].dependency]
OwnerBC == [v \in Nodes |-> nd[graph.owner[v]][v].betweeness_centrality]

\* DependencyPropogation::go's end of round syncing dependency and going on
\* whatever the accumulator
DependencyPropogation_reduce_again ==
  /\ pc = "DependencyPropogation_reduce"
  /\ iterations' = iterations + 1
  /\ accum_result' = [h \in Hosts |-> reduce("DependencyPropogation")]
  /\ IF TRUE
     THEN /\ pc' = IF SameBranch(accum_result')
                   THEN "DependencyPropogation_sync_dep" ELSE "blocked"
          /\ UNCHANGED history
     ELSE /\ pc' = IF SameBranch(accum_result') THEN "BC" ELSE "blocked"
          /\ dep_at_exit' = OwnerDependency
          /\ bc_expected' = [v \in Nodes |-> FAdd(bc_expected[v], OwnerDependency[v])]
          /\ UNCHANGED <<bc_first_run, processed>>
  /\ UNCHANGED <<config, nd, bitset, DGAccumulator_accum, current_src_node, i,
                 end_i, run, hid, assert_failed>>

\* DependencyPropogation::go's end of round leaving the loop after every round
DependencyPropogation_reduce_once ==
  /\ pc = "DependencyPropogation_reduce"
  /\ iterations' = iterations + 1
  /\ accum_result' = [h \in Hosts |-> reduce("DependencyPropogation")]
  /\ IF FALSE
     THEN /\ pc' = IF SameBranch(accum_result')
                   THEN "DependencyPropogation_sync_dep" ELSE "blocked"
          /\ UNCHANGED history
     ELSE /\ pc' = IF SameBranch(accum_result') THEN "BC" ELSE "blocked"
          /\ dep_at_exit' = OwnerDependency
          /\ bc_expected' = [v \in Nodes |-> FAdd(bc_expected[v], OwnerDependency[v])]
          /\ UNCHANGED <<bc_first_run, processed>>
  /\ UNCHANGED <<config, nd, bitset, DGAccumulator_accum, current_src_node, i,
                 end_i, run, hid, assert_failed>>

DependencyPropogation_reduce ==
  /\ pc = "DependencyPropogation_reduce"
  /\ iterations' = iterations + 1
  /\ accum_result' = [h \in Hosts |-> reduce("DependencyPropogation")]
  /\ IF reduce("DependencyPropogation") # 0
     THEN /\ pc' = IF SameBranch(accum_result')
                   THEN "DependencyPropogation_sync_dep" ELSE "blocked"
          /\ UNCHANGED history
     ELSE /\ pc' = IF SameBranch(accum_result') THEN "BC" ELSE "blocked"
          /\ dep_at_exit' = OwnerDependency
          /\ bc_expected' = [v \in Nodes |-> FAdd(bc_expected[v], OwnerDependency[v])]
          /\ UNCHANGED <<bc_first_run, processed>>
  /\ UNCHANGED <<config, nd, bitset, DGAccumulator_accum, current_src_node, i,
                 end_i, run, hid, assert_failed>>

\* DependencyPropogation::go's round without the sync of dependency
DependencyPropogation_sync_dep_skip ==
  /\ pc = "DependencyPropogation_sync_dep"
  /\ pc' = "DependencyPropogation"
  /\ UNCHANGED <<config, nd, bitset, DGAccumulator_accum, accum_result, iterations,
                 current_src_node, i, end_i, run, hid, assert_failed, history>>

DependencyPropogation_sync_dep ==
  /\ pc = "DependencyPropogation_sync_dep"
  /\ \E last \in ArrivalOrders :
       ApplySync(sync(Cur, "dependency", "Source", "Destination", "set", TRUE, last))
  /\ pc' = "DependencyPropogation"
  /\ UNCHANGED <<config, DGAccumulator_accum, accum_result, iterations, current_src_node,
                 i, end_i, run, hid, assert_failed, history>>

(***************************************************************************)
(* main: the runs, with the re-initialisation between two runs              *)
(***************************************************************************)
main_next ==
  /\ pc = "main_next"
  /\ bc_first_run' = IF run = 0 THEN OwnerBC ELSE bc_first_run
  /\ IF run + 1 # numRuns
     THEN /\ bitset' = [h \in Hosts |-> Bitsets0]
          /\ run' = run + 1
          /\ pc' = "InitializeGraph"
     ELSE /\ pc' = "done"
          /\ UNCHANGED <<bitset, run>>
  /\ UNCHANGED <<config, nd, DGAccumulator_accum, accum_result, iterations,
                 current_src_node, i, end_i, hid, assert_failed, dep_at_exit,
                 bc_expected, processed>>

Next ==
  \/ InitializeGraph_go
  \/ InitializeGraph_sync
  \/ BC_go
  \/ BC_for
  \/ BC_do_all
  \/ InitializeIteration_go
  \/ InitializeIteration_sync
  \/ FirstIterationSSSP_go
  \/ FirstIterationSSSP_sync
  \/ SSSP_do_all
  \/ SSSP_reduce
  \/ SSSP_sync_cur_len
  \/ SSSP_sync_cur_len_any_v
  \/ SSSP_sync_cur_len_any
  \/ PredAndSucc_go
  \/ PredAndSucc_sync_pred
  \/ PredAndSucc_sync_succ
  \/ NumShortestPaths_do_all
  \/ NumShortestPaths_sync_trim
  \/ NumShortestPaths_sync_to_add
  \/ NumShortestPathsChanges_go
  \/ NumShortestPaths_reduce
  \/ NumShortestPaths_sync_num_paths
  \/ NumShortestPaths_sync_prop_flag
  \/ DependencyPropogation_do_all
  \/ DependencyPropogation_sync_trim
  \/ DependencyPropogation_sync_to_add_float
  \/ DependencyPropChanges_go
  \/ DependencyPropChanges_sync_prop_flag
  \/ DependencyPropogation_reduce
  \/ DependencyPropogation_sync_dep
  \/ main_next

Spec == Init /\ [][Next]_vars

SpecRerun == InitRerun /\ [][Next]_vars

SpecMaxIterations == InitMaxIterations /\ [][Next]_vars

SpecSources == InitSources /\ [][Next]_vars

NextOrder ==
  \/ InitializeGraph_go
  \/ InitializeGraph_sync
  \/ BC_go
  \/ BC_for_ordered
  \/ BC_do_all
  \/ InitializeIteration_go
  \/ InitializeIteration_sync
  \/ FirstIterationSSSP_go
  \/ FirstIterationSSSP_sync
  \/ SSSP_do_all
  \/ SSSP_reduce
  \/ SSSP_sync_cur_len
  \/ SSSP_sync_cur_len_any_v
  \/ SSSP_sync_cur_len_any
  \/ PredAndSucc_go
  \/ PredAndSucc_sync_pred
  \/ PredAndSucc_sync_succ
  \/ NumShortestPaths_do_all
  \/ NumShortestPaths_sync_trim
  \/ NumShortestPaths_sync_to_add
  \/ NumShortestPathsChanges_go
  \/ NumShortestPaths_reduce
  \/ NumShortestPaths_sync_num_paths
  \/ NumShortestPaths_sync_prop_flag
  \/ DependencyPropogation_do_all
  \/ DependencyPropogation_sync_trim
  \/ DependencyPropogation_sync_to_add_float
  \/ DependencyPropChanges_go
  \/ DependencyPropChanges_sync_prop_flag
  \/ DependencyPropogation_reduce
  \/ DependencyPropogation_sync_dep
  \/ main_next

SpecOrder == InitOrder /\ [][NextOrder]_vars

(***************************************************************************)
(* Reference: Brandes' quantities on the whole (unpartitioned) graph       *)
(***************************************************************************)
RECURSIVE RefBFS(_, _, _)
RefBFS(dist, frontier, k) ==
  IF frontier = {} THEN dist
  ELSE LET nxt == {w \in Nodes : /\ dist[w] = infinity
                                 /\ \E u \in frontier : <<u, w>> \in graph.E}
       IN RefBFS([v \in Nodes |-> IF v \in nxt THEN k + 1 ELSE dist[v]],
                 nxt, k + 1)

\* hop distance from s (infinity: unreachable)
RefDist(s) == RefBFS([v \in Nodes |-> IF v = s THEN 0 ELSE infinity], {s}, 0)

Reachable(s, v) == RefDist(s)[v] # infinity

\* the edges of the shortest-path DAG of s
RefDAG(s) ==
  LET dist == RefDist(s)
  IN {e \in graph.E : dist[e[1]] # infinity /\ dist[e[2]] = dist[e[1]] + 1}

\* the number of shortest paths from s to v
RECURSIVE RefPaths(_, _)
RefPaths(s, v) ==
  IF v = s THEN 1
  ELSE LET P == {e[1] : e \in {d \in RefDAG(s) : d[2] = v}}
       IN SumOver([u \in P |-> RefPaths(s, u)], P)

\* Brandes' dependency of s on v
RECURSIVE RefDelta(_, _)
RefDelta(s, v) ==
  LET W == {e[2] : e \in {d \in RefDAG(s) : d[1] = v}}
  IN FSum([w \in W |-> FMul(FDiv(FromInt(RefPaths(s, v)),
                                 FromInt(RefPaths(s, w))),
                            FAdd(FOne, RefDelta(s, w)))], W)

Owner(v) == graph.owner[v]
Replicas(v) == {h \in Hosts : isLocal(h, v)}

(***************************************************************************)
(* C5: when the BFS round loop of source s has terminated, every replica   *)
(* (owner or mirror, whatever its role) of every node v reachable from s   *)
(* holds current_length(v) = the hop distance from s to v.                 *)
(***************************************************************************)
C5_BFSDistances ==
  pc = "PredAndSucc" =>
    \A v \in Nodes : Reachable(current_src_node, v) =>
      \A h \in Replicas(v) :
        nd[h][v].current_length = RefDist(current_src_node)[v]

\* a node two hops away from the source has a mirror, and the loop has ended
C5_Witness ==
  /\ pc = "PredAndSucc"
  /\ \E v \in Nodes :
       /\ RefDist(current_src_node)[v] = 2
       /\ \E h \in Replicas(v) : ~isOwned(h, v) /\ nd[h][v].current_length = 2


(***************************************************************************)
(* C4: in every source iteration, when the path-count round loop has       *)
(* terminated, num_shortest_paths(v) on v's owner is the number of         *)
(* shortest paths from the source to v, for every v reachable from it.     *)
(***************************************************************************)
C4_PathCounts ==
  pc = "NumShortestPaths_sync_num_paths" =>
    \A v \in Nodes : Reachable(current_src_node, v) =>
      nd[Owner(v)][v].num_shortest_paths = RefPaths(current_src_node, v)

\* the same, in the first source iteration after InitializeGraph only
C4_FirstIteration ==
  (pc = "NumShortestPaths_sync_num_paths" /\ i = startSource) =>
    \A v \in Nodes : Reachable(current_src_node, v) =>
      nd[Owner(v)][v].num_shortest_paths = RefPaths(current_src_node, v)

(***************************************************************************)
(* C1: in every source iteration, when the dependency round loop has       *)
(* terminated, dependency(v) on v's owner is Brandes' dependency of the    *)
(* source on v, for every node v other than the source.                    *)
(***************************************************************************)
C1_Dependency ==
  pc = "BC" =>
    \A v \in Nodes \ {current_src_node} :
      nd[Owner(v)][v].dependency = RefDelta(current_src_node, v)

\* the same, in the first source iteration after InitializeGraph only
C1_FirstIteration ==
  (pc = "BC" /\ i = startSource) =>
    \A v \in Nodes \ {current_src_node} :
      nd[Owner(v)][v].dependency = RefDelta(current_src_node, v)

(***************************************************************************)
(* C2: when BC::go has folded a source (and so when it has finished its    *)
(* source range), betweeness_centrality(v) on v's owner is the sum, over   *)
(* the sources folded so far, of the dependency(v) the owner held when     *)
(* that source's dependency round loop terminated, and dependency(v) is 0  *)
(* again.                                                                  *)
(***************************************************************************)
C2_FoldIsSum ==
  pc \in {"BC_for", "main_next"} =>
    \A v \in Nodes :
      /\ nd[Owner(v)][v].betweeness_centrality = bc_expected[v]
      /\ nd[Owner(v)][v].dependency = FZero

\* a run of several sources has finished, and a node's score is more than the
\* last source's contribution
C2_Witness ==
  /\ pc = "main_next"
  /\ i > startSource + 1
  /\ \E v \in Nodes :
       /\ FGtZero(nd[Owner(v)][v].betweeness_centrality)
       /\ nd[Owner(v)][v].betweeness_centrality # dep_at_exit[v]

C6_RerunIdentical ==
  (pc = "main_next" /\ run >= 1) =>
    \A v \in Nodes : nd[Owner(v)][v].betweeness_centrality = bc_first_run[v]

\* a second run has finished with a score that is not 0
C6_Witness ==
  /\ pc = "main_next"
  /\ run >= 1
  /\ \E v \in Nodes : FGtZero(nd[Owner(v)][v].betweeness_centrality)

(***************************************************************************)
(* C7: during the iteration of a source, every step leaves every replica   *)
(* of a node v that is unreachable from the source with current_length =   *)
(* infinity, and does not change the num_shortest_paths, dependency and    *)
(* betweeness_centrality that v's owner holds.                             *)
(***************************************************************************)
IterationPcs ==
  {"InitializeIteration", "InitializeIteration_sync", "FirstIterationSSSP",
   "FirstIterationSSSP_sync", "SSSP", "SSSP_reduce", "SSSP_sync",
   "PredAndSucc", "PredAndSucc_sync_pred", "PredAndSucc_sync_succ",
   "NumShortestPaths", "NumShortestPaths_sync_trim",
   "NumShortestPaths_sync_to_add", "NumShortestPathsChanges",
   "NumShortestPaths_reduce", "NumShortestPaths_sync_num_paths",
   "NumShortestPaths_sync_prop_flag", "DependencyPropogation",
   "DependencyPropogation_sync_trim",
   "DependencyPropogation_sync_to_add_float", "DependencyPropChanges",
   "DependencyPropChanges_sync_prop_flag", "DependencyPropogation_reduce",
   "DependencyPropogation_sync_dep", "BC"}

C7_UnreachableStep ==
  pc \in IterationPcs =>
    \A v \in Nodes : ~Reachable(current_src_node, v) =>
      /\ \A h \in Replicas(v) : nd'[h][v].current_length = infinity
      /\ nd'[Owner(v)][v].num_shortest_paths = nd[Owner(v)][v].num_shortest_paths
      /\ nd'[Owner(v)][v].dependency = nd[Owner(v)][v].dependency
      /\ nd'[Owner(v)][v].betweeness_centrality
           = nd[Owner(v)][v].betweeness_centrality

C7_Unreachable == [][C7_UnreachableStep]_vars

\* a later source has been folded that does not reach a node with a mirror
\* which the source before it did reach
C7_Witness ==
  /\ pc = "BC_for"
  /\ i > startSource + 1
  /\ \E v \in Nodes :
       /\ ~Reachable(current_src_node, v)
       /\ Reachable(current_src_node - 1, v)
       /\ Replicas(v) # {Owner(v)}

(***************************************************************************)
(* C8: on the diamond s -> a, s -> b, a -> t, b -> t (s, a, b, t = 0, 1,   *)
(* 2, 3) with source s, after the path-count phase num_shortest_paths(t)   *)
(* = 2 and num_shortest_paths(a) = num_shortest_paths(b) = 1 on the        *)
(* owners, whatever the partitioning.                                      *)
(***************************************************************************)
AfterPathCount == pc = "DependencyPropogation" /\ iterations = 0

C8_Diamond ==
  (graph.E = Diamond /\ current_src_node = 0 /\ AfterPathCount) =>
    /\ nd[Owner(3)][3].num_shortest_paths = 2
    /\ nd[Owner(1)][1].num_shortest_paths = 1
    /\ nd[Owner(2)][2].num_shortest_paths = 1

\* the diamond under a vertex cut, a and b on different hosts
C8_Witness ==
  /\ graph.E = Diamond
  /\ current_src_node = 0
  /\ AfterPathCount
  /\ graph.vcut
  /\ Owner(1) # Owner(2)
  /\ nd[Owner(3)][3].num_shortest_paths = 2

(***************************************************************************)
(* C9: on the path s -> a -> b -> c (0, 1, 2, 3) with source s, when the   *)
(* dependency propagation has ended, dependency(a) = 2, dependency(b) = 1  *)
(* and dependency(c) = 0 on the owners, whatever the partitioning.         *)
(***************************************************************************)
C9_Path ==
  (graph.E = PathGraph /\ current_src_node = 0 /\ pc = "BC") =>
    /\ nd[Owner(1)][1].dependency = FromInt(2)
    /\ nd[Owner(2)][2].dependency = FromInt(1)
    /\ nd[Owner(3)][3].dependency = FZero

\* the path with a and b on different hosts
C9_Witness ==
  /\ graph.E = PathGraph
  /\ current_src_node = 0
  /\ pc = "BC"
  /\ Owner(1) # Owner(2)
  /\ nd[Owner(1)][1].dependency = FromInt(2)

(***************************************************************************)
(* C10: on the single edge a -> b (0 -> 1), after computeBC with the       *)
(* single source a, betweeness_centrality(a) = 0 and                       *)
(* betweeness_centrality(b) = 0.                                           *)
(***************************************************************************)
C10_SingleEdge ==
  (/\ graph.E = SingleEdge
   /\ singleSourceBC
   /\ startSource = 0
   /\ pc = "main_next") =>
    /\ nd[Owner(0)][0].betweeness_centrality = FZero
    /\ nd[Owner(1)][1].betweeness_centrality = FZero

\* the run on the single edge has ended, a and b on different hosts
C10_Witness ==
  /\ graph.E = SingleEdge
  /\ singleSourceBC
  /\ startSource = 0
  /\ pc = "main_next"
  /\ i = 1
  /\ Owner(0) # Owner(1)
  /\ nd[Owner(1)][1].current_length = 1

(***************************************************************************)
(* The sync calls of the program, by the position that issues them:        *)
(* [fields, w: write role, r: read role, red: reduction, bs: with bitset]  *)
(***************************************************************************)
SyncPcs ==
  {"InitializeGraph_sync", "InitializeIteration_sync",
   "FirstIterationSSSP_sync", "SSSP_sync", "PredAndSucc_sync_pred",
   "PredAndSucc_sync_succ", "NumShortestPaths_sync_trim",
   "NumShortestPaths_sync_to_add", "NumShortestPaths_sync_num_paths",
   "NumShortestPaths_sync_prop_flag", "DependencyPropogation_sync_trim",
   "DependencyPropogation_sync_to_add_float",
   "DependencyPropChanges_sync_prop_flag", "DependencyPropogation_sync_dep"}

SyncCall(fields, w, r, red, bs) ==
  [fields |-> fields, w |-> w, r |-> r, red |-> red, bs |-> bs]

SyncCallAt ==
  CASE pc = "InitializeGraph_sync" ->
         SyncCall(<<"num_shortest_paths", "num_successors", "num_predecessors",
                    "trim", "to_add", "to_add_float", "propogation_flag">>,
                  "Source", "Destination", "set", FALSE)
    [] pc = "InitializeIteration_sync" ->
         SyncCall(<<"dependency", "current_length">>,
                  "Source", "Destination", "set", FALSE)
    [] pc = "FirstIterationSSSP_sync" ->
         SyncCall(<<"current_length">>, "Destination", "Source", "min", TRUE)
    [] pc = "SSSP_sync" /\ accum_result[0] # 0 ->
         SyncCall(<<"current_length">>, "Destination", "Source", "min", TRUE)
    [] pc = "SSSP_sync" /\ accum_result[0] = 0 /\ is_vertex_cut ->
         SyncCall(<<"current_length">>, "Destination", "Any", "min", FALSE)
    [] pc = "SSSP_sync" /\ accum_result[0] = 0 /\ ~is_vertex_cut ->
         SyncCall(<<"current_length">>, "Destination", "Any", "min", TRUE)
    [] pc = "PredAndSucc_sync_pred" ->
         SyncCall(<<"num_predecessors">>, "Destination", "Source", "add", TRUE)
    [] pc = "PredAndSucc_sync_succ" ->
         SyncCall(<<"num_successors">>, "Source", "Any", "add", TRUE)
    [] pc = "NumShortestPaths_sync_trim" ->
         SyncCall(<<"trim">>, "Destination", "Source", "add", TRUE)
    [] pc = "NumShortestPaths_sync_to_add" ->
         SyncCall(<<"to_add">>, "Destination", "Source", "add", TRUE)
    [] pc = "NumShortestPaths_sync_num_paths" ->
         SyncCall(<<"num_shortest_paths">>, "Source", "Destination", "set", TRUE)
    [] pc = "NumShortestPaths_sync_prop_flag" ->
         SyncCall(<<"propogation_flag">>, "Source", "Destination", "set", TRUE)
    [] pc = "DependencyPropogation_sync_trim" ->
         SyncCall(<<"trim">>, "Source", "Source", "add", TRUE)
    [] pc = "DependencyPropogation_sync_to_add_float" ->
         SyncCall(<<"to_add_float">>, "Source", "Source", "add_float", TRUE)
    [] pc = "DependencyPropChanges_sync_prop_flag" ->
         SyncCall(<<"propogation_flag">>, "Source", "Destination", "set", TRUE)
    [] pc = "DependencyPropogation_sync_dep" ->
         SyncCall(<<"dependency">>, "Source", "Destination", "set", TRUE)

\* host h holds a mirror of v that plays the role
MirrorInRole(role, h, v) ==
  /\ h # Owner(v)
  /\ IF role = "Source" THEN \E e \in graph.E : e[1] = v /\ graph.ehost[e] = h
     ELSE IF role = "Destination"
     THEN \E e \in graph.E : e[2] = v /\ graph.ehost[e] = h
     ELSE \E e \in graph.E : (e[1] = v \/ e[2] = v) /\ graph.ehost[e] = h

\* the values the reduction of a sync call can give node v for field f
ReducedValues(c, f, v) ==
  LET W == {h \in Hosts : /\ MirrorInRole(c.w, h, v)
                          /\ (c.bs => v \in bitset[h][f])}
      own == nd[Owner(v)][v][f]
      val == [h \in W |-> nd[h][v][f]]
      all == {own} \cup {val[h] : h \in W}
  IN CASE c.red = "min" -> {x \in all : \A y \in all : ~UGt(x, y)}
       [] c.red = "add" -> {U32(own + SumOver(val, W))}
       [] c.red = "add_float" -> {FAdd(own, FSum(val, W))}
       [] c.red = "set" -> IF W = {} THEN {own} ELSE {val[h] : h \in W}

(***************************************************************************)
(* C11: every sync call, whatever its field and reduction, leaves the      *)
(* reduction of the owner's prior value with the values written on the     *)
(* write-role mirrors on the owner and on every mirror in the read role,   *)
(* and leaves every other mirror with the value it held before the call.   *)
(***************************************************************************)
C11_SyncStep ==
  pc \in SyncPcs =>
    LET c == SyncCallAt
    IN \A k \in 1 .. Len(c.fields) : \A v \in Nodes :
         \E r \in ReducedValues(c, c.fields[k], v) :
           /\ nd'[Owner(v)][v][c.fields[k]] = r
           /\ \A h \in Hosts \ {Owner(v)} :
                nd'[h][v][c.fields[k]] =
                  IF MirrorInRole(c.r, h, v) THEN r ELSE nd[h][v][c.fields[k]]

PhaseSyncPcs == SyncPcs \ {"InitializeGraph_sync", "InitializeIteration_sync"}

C12_UnfilteredStep ==
  (is_vertex_cut /\ pc \in PhaseSyncPcs) =>
    LET c == SyncCallAt
    IN /\ \E last \in Hosts :
            nd' = syncs(Cur, c.fields, c.w, "Any", c.red, FALSE, last).nd
       /\ bitset' = bitset

C12_VertexCutUnfiltered == [][C12_UnfilteredStep]_vars

\* the one call that does fall back: the sync that ends the BFS round loop
C12_LastBFSSyncStep ==
  (is_vertex_cut /\ pc = "SSSP_sync" /\ accum_result[0] = 0) =>
    /\ nd' = sync(Cur, "current_length", "Destination", "Any", "min", FALSE, 0).nd
    /\ bitset' = bitset

C12_LastBFSSync == [][C12_LastBFSSyncStep]_vars

(***************************************************************************)
(* C13: the hosts issue the same sequence of sync and reduce calls: at     *)
(* every test that decides which call comes next, every host holds the     *)
(* same accum_result (the reduced count), so the hosts never take          *)
(* different branches and none blocks in a collective the others skip.     *)
(***************************************************************************)
C13_SameCalls ==
  /\ pc # "blocked"
  /\ \A h, g \in Hosts : accum_result[h] = accum_result[g]

\* a BFS round has ended in which one host lowered a distance and another
\* host lowered none, and the hosts go on together
C13_Witness ==
  /\ pc = "SSSP_sync"
  /\ \E h, g \in Hosts :
       /\ DGAccumulator_accum["SSSP"][h] = 0
       /\ DGAccumulator_accum["SSSP"][g] # 0
       /\ accum_result[h] # 0

(***************************************************************************)
(* C14: each of the three round loops (BFS, path count, dependency) is     *)
(* bounded by maxIterations: no round of a loop starts once the loop has   *)
(* executed more than maxIterations rounds (the seed round of the BFS      *)
(* being one), whatever the reduced count of the round before.             *)
(***************************************************************************)
RoundStarts == {"SSSP", "NumShortestPaths", "DependencyPropogation"}

C14_RoundsBounded ==
  (pc \in RoundStarts /\ hid = 0) => iterations <= maxIterations

(***************************************************************************)
(* C15: each of the three round loops terminates, and executes at most     *)
(* D + 2 rounds, D being the largest finite hop distance from the source   *)
(* (the seed round of the BFS is a round).                                 *)
(***************************************************************************)
\* the depth of the shortest-path DAG of s
Depth(s) ==
  LET dist == RefDist(s)
      fin == {dist[v] : v \in {w \in Nodes : dist[w] # infinity}}
  IN IF fin = {} THEN 0 ELSE CHOOSE d \in fin : \A e \in fin : e <= d

RoundPcs == IterationPcs \ {"InitializeIteration", "InitializeIteration_sync",
                            "FirstIterationSSSP", "FirstIterationSSSP_sync"}

C15_RoundBound ==
  pc \in RoundPcs => iterations <= Depth(current_src_node) + 2

\* the loop a position belongs to, and the position's place in a round of
\* its loop, counted down to the increment of the round counter
LoopOf(p) ==
  CASE p \in {"SSSP", "SSSP_reduce", "SSSP_sync"} -> "SSSP"
    [] p \in {"NumShortestPaths", "NumShortestPaths_sync_trim",
              "NumShortestPaths_sync_to_add", "NumShortestPathsChanges",
              "NumShortestPaths_reduce"} -> "NumShortestPaths"
    [] p \in {"DependencyPropogation", "DependencyPropogation_sync_trim",
              "DependencyPropogation_sync_to_add_float",
              "DependencyPropChanges", "DependencyPropChanges_sync_prop_flag",
              "DependencyPropogation_reduce",
              "DependencyPropogation_sync_dep"} -> "DependencyPropogation"
    [] OTHER -> "none"

RoundLength == NumHosts + 8

StepsToIncrement(p, h) ==
  CASE p = "SSSP_sync" -> NumHosts + 1
    [] p = "SSSP" -> NumHosts - h
    [] p = "SSSP_reduce" -> 0
    [] p = "NumShortestPaths" -> 4
    [] p = "NumShortestPaths_sync_trim" -> 3
    [] p = "NumShortestPaths_sync_to_add" -> 2
    [] p = "NumShortestPathsChanges" -> 1
    [] p = "NumShortestPaths_reduce" -> 0
    [] p = "DependencyPropogation_sync_dep" -> 6
    [] p = "DependencyPropogation" -> 5
    [] p = "DependencyPropogation_sync_trim" -> 4
    [] p = "DependencyPropogation_sync_to_add_float" -> 3
    [] p = "DependencyPropChanges" -> 2
    [] p = "DependencyPropChanges_sync_prop_flag" -> 1
    [] p = "DependencyPropogation_reduce" -> 0
    [] OTHER -> 0

\* the steps a loop has left when it runs all of its D + 2 rounds
StepsLeft(p, h, it) ==
  (Depth(current_src_node) + 2 - it) * RoundLength + StepsToIncrement(p, h)

\* a step inside a loop leaves the loop or lowers StepsLeft, which is never
\* below 0: the loop ends
C15_TerminatesStep ==
  /\ C15_RoundBound
  /\ LoopOf(pc) # "none" =>
       /\ StepsLeft(pc, hid, iterations) >= 0
       /\ LoopOf(pc') \in {LoopOf(pc), "none"}
       /\ LoopOf(pc') = LoopOf(pc) =>
            StepsLeft(pc', hid', iterations') < StepsLeft(pc, hid, iterations)

C15_Terminates == [][C15_TerminatesStep]_vars

\* the three loops of a source whose DAG has depth 3 have ended, the
\* dependency loop after 3 rounds or more
C15_Witness ==
  /\ pc = "BC"
  /\ Depth(current_src_node) = 3
  /\ iterations >= 3
  /\ \E v \in Nodes : Replicas(v) # {Owner(v)}

(***************************************************************************)
(* C16: the trim a Changes pass applies never exceeds the counter it is    *)
(* taken from: when NumShortestPathsChanges runs, every local replica with *)
(* trim > 0 has trim <= num_predecessors, and when DependencyPropChanges   *)
(* runs, every local replica it trims has trim <= num_successors; no       *)
(* counter wraps below 0.                                                  *)
(***************************************************************************)
\* DependencyPropChanges takes the trim of replica (h, v) from num_successors
TrimsSuccessors(h, v) ==
  /\ nd[h][v].current_length # infinity
  /\ ~(nd[h][v].num_successors = 0 /\ nd[h][v].propogation_flag)
  /\ nd[h][v].trim # 0

C16_TrimInvariant ==
  /\ pc = "NumShortestPathsChanges" =>
       \A h \in Hosts : \A v \in LocalNodes(h) :
         nd[h][v].trim # 0 => ~UGt(nd[h][v].trim, nd[h][v].num_predecessors)
  /\ pc = "DependencyPropChanges" =>
       \A h \in Hosts : \A v \in LocalNodes(h) :
         TrimsSuccessors(h, v) => ~UGt(nd[h][v].trim, nd[h][v].num_successors)
  /\ \A h \in Hosts : \A v \in LocalNodes(h) :
       nd[h][v].num_predecessors >= 0 /\ nd[h][v].num_successors >= 0

\* the path-count pass is about to take a trim of 2 from a counter of 2, and
\* a trim from a mirror's counter
C16_Witness ==
  /\ pc = "NumShortestPathsChanges"
  /\ \E h \in Hosts : \E v \in LocalNodes(h) :
       nd[h][v].trim = 2 /\ nd[h][v].num_predecessors = 2
  /\ \E h \in Hosts : \E v \in LocalNodes(h) :
       ~isOwned(h, v) /\ nd[h][v].trim # 0

(***************************************************************************)
(* C17: when BC::go has ended, the sources it has taken are, in this       *)
(* order and once each: startSource alone in single-source mode;           *)
(* startSource .. startSource + numberOfSources - 1 when a count is given; *)
(* and 0 .. totalNodes - 1 when no count is given, whatever startSource.   *)
(***************************************************************************)
SourceRange ==
  IF singleSourceBC THEN <<startSource>>
  ELSE IF numberOfSources # 0
  THEN [k \in 1 .. numberOfSources |-> startSource + k - 1]
  ELSE [k \in 1 .. totalNodes |-> k - 1]

C17_SourceRange == pc = "main_next" => processed = SourceRange

\* the same with a startSource of 0 when no count is given
C17_SourceRangeFromZero ==
  (pc = "main_next" /\ (singleSourceBC \/ numberOfSources # 0 \/ startSource = 0))
    => processed = SourceRange

(***************************************************************************)
(* C18: betweeness_centrality of a replica is changed only by the fold of  *)
(* a source (BC::go's do_all, which adds the replica's dependency) and by  *)
(* InitializeGraph (which zeroes it): the per-iteration reset, the BFS,    *)
(* pred/succ, path-count and dependency phases and every sync call leave   *)
(* it unchanged on every replica, so it persists across the sources.       *)
(***************************************************************************)
C18_ScoreStep ==
  \A h \in Hosts : \A v \in Nodes :
    LET old == nd[h][v].betweeness_centrality
        new == nd'[h][v].betweeness_centrality
    IN /\ pc \notin {"BC", "InitializeGraph"} => new = old
       /\ pc = "BC" =>
            new = IF isLocal(h, v) THEN FAdd(old, nd[h][v].dependency) ELSE old
       /\ pc = "InitializeGraph" => new = IF isLocal(h, v) THEN FZero ELSE old

C18_ScoreFrame == [][C18_ScoreStep]_vars

\* a later source's dependency phase has ended and a node that has a mirror
\* still holds the score that an earlier source has given it
C18_Witness ==
  /\ pc = "BC"
  /\ i > startSource
  /\ \E v \in Nodes : \E h \in Replicas(v) :
       /\ ~isOwned(h, v)
       /\ FGtZero(nd[Owner(v)][v].betweeness_centrality)

(***************************************************************************)
(* C19: at the start of every source iteration, after the per-iteration    *)
(* reset and before the first BFS round, the owner of every node other     *)
(* than the source holds current_length = old_length = infinity,           *)
(* num_shortest_paths = 0 and dependency = 0, and the owner of the source  *)
(* holds current_length = 0 and num_shortest_paths = 1.                    *)
(***************************************************************************)
C19_IterationStart ==
  pc = "FirstIterationSSSP" =>
    \A v \in Nodes :
      LET d == nd[Owner(v)][v]
      IN IF v = current_src_node
         THEN d.current_length = 0 /\ d.num_shortest_paths = 1
         ELSE /\ d.current_length = infinity
              /\ d.old_length = infinity
              /\ d.num_shortest_paths = 0
              /\ d.dependency = FZero

\* the same without the num_shortest_paths of the nodes other than the source
C19_IterationStartLengths ==
  pc = "FirstIterationSSSP" =>
    \A v \in Nodes :
      LET d == nd[Owner(v)][v]
      IN IF v = current_src_node
         THEN d.current_length = 0 /\ d.num_shortest_paths = 1
         ELSE /\ d.current_length = infinity
              /\ d.old_length = infinity
              /\ d.dependency = FZero

(***************************************************************************)
(* C20: whenever InitializeIteration runs, in the first and in every later *)
(* source iteration, propogation_flag is false on every replica of every   *)
(* node other than the new source that the pass visits: its assertion      *)
(* does not fail.                                                          *)
(***************************************************************************)
C20_FlagsClear ==
  pc = "InitializeIteration" =>
    \A h \in Hosts : \A v \in LocalNodes(h) :
      v # current_src_node => ~nd[h][v].propogation_flag

\* a later iteration starts, and the source of the iteration before has a
\* mirror
C20_Witness ==
  /\ pc = "InitializeIteration"
  /\ i > startSource
  /\ Replicas(i - 1) # {Owner(i - 1)}
  /\ \E v \in Nodes : Reachable(i - 1, v) /\ v # i - 1

(***************************************************************************)
(* C21: within the BFS of one source, no step raises current_length on any *)
(* replica of any node: neither a relaxation (atomic minimum) of the seed  *)
(* round or of a later round, nor a min-reduce sync.                       *)
(***************************************************************************)
BFSPcs == {"FirstIterationSSSP", "FirstIterationSSSP_sync", "SSSP",
           "SSSP_reduce", "SSSP_sync"}

C21_NonIncreasingStep ==
  pc \in BFSPcs =>
    \A h \in Hosts : \A v \in Nodes :
      ~UGt(nd'[h][v].current_length, nd[h][v].current_length)

C21_NonIncreasing == [][C21_NonIncreasingStep]_vars

\* a round of the BFS has ended in which a node that already had a finite
\* distance was offered a longer one, and a mirror holds a finite distance
C21_Witness ==
  /\ pc = "SSSP_sync"
  /\ \E e \in graph.E :
       /\ nd[graph.ehost[e]][e[1]].current_length # infinity
       /\ UGt(nd[graph.ehost[e]][e[1]].current_length + 1,
              nd[graph.ehost[e]][e[2]].current_length)
  /\ \E v \in Nodes : \E h \in Replicas(v) :
       ~isOwned(h, v) /\ nd[h][v].current_length \in 1 .. totalNodes

(***************************************************************************)
(* C22: the phases of a source iteration run in the order reset, BFS,      *)
(* pred/succ counting, path counting, dependency propagation, fold: a      *)
(* step stays in its phase or goes to the next one, the fold starts only   *)
(* when the dependency round loop has converged (no host found a ready     *)
(* successor), and the next source's reset and BFS start only after the    *)
(* fold, with the dependency of every node folded into its score.          *)
(***************************************************************************)
Phase(p) ==
  CASE p \in {"InitializeIteration", "InitializeIteration_sync"} -> 1
    [] p \in BFSPcs -> 2
    [] p \in {"PredAndSucc", "PredAndSucc_sync_pred",
              "PredAndSucc_sync_succ"} -> 3
    [] p \in {"NumShortestPaths", "NumShortestPaths_sync_trim",
              "NumShortestPaths_sync_to_add", "NumShortestPathsChanges",
              "NumShortestPaths_reduce", "NumShortestPaths_sync_num_paths",
              "NumShortestPaths_sync_prop_flag"} -> 4
    [] LoopOf(p) = "DependencyPropogation" -> 5
    [] p = "BC" -> 6
    [] OTHER -> 0

C22_PhaseStep ==
  LET p == Phase(pc)
      q == Phase(pc')
  IN /\ p \in 1 .. 5 => q \in {p, p + 1}
     /\ p = 6 => pc' = "BC_for"
     /\ (p = 0 /\ q # 0) => (pc = "BC_for" /\ q = 1)
     /\ (p = 5 /\ q = 6) =>
          /\ \A h \in Hosts : DGAccumulator_accum["DependencyPropogation"][h] = 0
          /\ \A h \in Hosts : accum_result'[h] = 0
     /\ (pc = "BC_for" /\ q = 1) =>
          \A v \in Nodes :
            /\ nd[Owner(v)][v].dependency = FZero
            /\ nd[Owner(v)][v].betweeness_centrality = bc_expected[v]

C22_PhaseOrder == [][C22_PhaseStep]_vars

\* the BFS of a later source is about to start, the source before it has
\* given a node a score, and a node has a mirror
C22_Witness ==
  /\ pc = "FirstIterationSSSP"
  /\ i > startSource
  /\ \E v \in Nodes : FGtZero(nd[Owner(v)][v].betweeness_centrality)
  /\ \E v \in Nodes : Replicas(v) # {Owner(v)}

(***************************************************************************)
(* C23: after the pred/succ pass and its two add-reduce syncs, the owner   *)
(* of every node u at a finite distance from the source holds              *)
(* num_successors(u) = the number of edges (u, v), over all hosts, with    *)
(* current_length(u) + 1 = current_length(v), and num_predecessors(u) =    *)
(* the number of such edges (t, u); a node at distance infinity has got    *)
(* no increment.                                                           *)
(***************************************************************************)
AfterPredAndSucc == pc = "NumShortestPaths" /\ iterations = 0

DAGSuccessors(s, u) == {e \in RefDAG(s) : e[1] = u}
DAGPredecessors(s, u) == {e \in RefDAG(s) : e[2] = u}

C23_PredAndSuccCounts ==
  AfterPredAndSucc =>
    \A u \in Nodes :
      LET d == nd[Owner(u)][u]
      IN IF Reachable(current_src_node, u)
         THEN /\ d.num_successors
                   = Cardinality(DAGSuccessors(current_src_node, u))
              /\ d.num_predecessors
                   = Cardinality(DAGPredecessors(current_src_node, u))
         ELSE d.num_successors = 0 /\ d.num_predecessors = 0

\* the same on every replica that reads the counts: num_successors on every
\* replica, num_predecessors on the replicas that hold an out-edge
C23_PredAndSuccReplicas ==
  AfterPredAndSucc =>
    \A u \in Nodes : Reachable(current_src_node, u) =>
      \A h \in Replicas(u) :
        /\ nd[h][u].num_successors
             = Cardinality(DAGSuccessors(current_src_node, u))
        /\ IsSource(h, u) =>
             nd[h][u].num_predecessors
               = Cardinality(DAGPredecessors(current_src_node, u))

\* the counts of the diamond's sink are in, its in-edges on different hosts,
\* in a later source iteration
C23_Witness ==
  /\ AfterPredAndSucc
  /\ i > startSource
  /\ \E u \in Nodes :
       /\ nd[Owner(u)][u].num_predecessors = 2
       /\ \E e, f \in DAGPredecessors(current_src_node, u) :
            graph.ehost[e] # graph.ehost[f]

(***************************************************************************)
(* C24: in the path-count phase of one source iteration a node pushes in   *)
(* one round only, the round whose number is its distance from the source: *)
(* a pass of NumShortestPaths delivers, along every edge (u,v) of the      *)
(* shortest-path DAG whose u is at that distance and along no other edge,  *)
(* one trim increment and u's num_shortest_paths into v's to_add, and the  *)
(* loop is not left before the round of every DAG edge has been run.       *)
(***************************************************************************)
\* the DAG edges into v stored on host h whose round is the running round
PushedEdges(h, v) ==
  {e \in RefDAG(current_src_node) :
     /\ e[2] = v
     /\ graph.ehost[e] = h
     /\ RefDist(current_src_node)[e[1]] = iterations}

C24_PushStep ==
  pc = "NumShortestPaths" =>
    \A h \in Hosts : \A v \in Nodes :
      LET P == PushedEdges(h, v)
      IN /\ nd'[h][v].trim = U32(nd[h][v].trim + Cardinality(P))
         /\ nd'[h][v].to_add =
              U32(nd[h][v].to_add
                  + SumOver([e \in P |-> nd[h][e[1]].num_shortest_paths], P))
         /\ (nd[h][v].propogation_flag /\ ~nd'[h][v].propogation_flag)
              => RefDist(current_src_node)[v] = iterations

C24_AllPushed ==
  pc = "NumShortestPaths_sync_num_paths" =>
    \A e \in RefDAG(current_src_node) :
      RefDist(current_src_node)[e[1]] < iterations

C24_PushesOnce == [][C24_PushStep /\ C24_AllPushed]_vars

\* a node other than the source has just pushed along a DAG edge into a mirror
C24_Witness ==
  /\ pc = "NumShortestPaths_sync_trim"
  /\ iterations >= 1
  /\ \E h \in Hosts : \E v \in Nodes :
       /\ ~isOwned(h, v)
       /\ PushedEdges(h, v) # {}
       /\ nd[h][v].trim = 1
       /\ nd[h][v].to_add >= 1

(***************************************************************************)
(* C25: in the path-count phase the propogation_flag of a node v other     *)
(* than the source, on its owner and on every replica with an out-edge     *)
(* (the replicas that push), becomes true only in a pass of                *)
(* NumShortestPathsChanges that brings its num_predecessors from a         *)
(* non-zero value to 0, in the round before the round of v's distance; at  *)
(* that moment every DAG predecessor of v has pushed and v's to_add has    *)
(* been folded into its num_shortest_paths, which does not change any more *)
(* while the flag is set; v pushes in the next round.                      *)
(***************************************************************************)
PathCountPcs ==
  {"NumShortestPaths", "NumShortestPaths_sync_trim",
   "NumShortestPaths_sync_to_add", "NumShortestPathsChanges",
   "NumShortestPaths_reduce"}

\* what the DAG predecessors of v hold as their numbers of shortest paths
PredecessorPaths(v) ==
  LET P == DAGPredecessors(current_src_node, v)
  IN SumOver([e \in P |-> nd[Owner(e[1])][e[1]].num_shortest_paths], P)

\* the replicas of v that hold v's count for a push: the owner and the
\* replicas with an out-edge
Pushers(v) == {h \in Hosts : isOwned(h, v) \/ IsSource(h, v)}

C25_FlagStep ==
  pc \in PathCountPcs =>
    \A v \in Nodes \ {current_src_node} : \A h \in Pushers(v) :
      LET d == nd[h][v]
          d1 == nd'[h][v]
          dist == RefDist(current_src_node)[v]
      IN /\ (~d.propogation_flag /\ d1.propogation_flag) =>
              /\ pc = "NumShortestPathsChanges"
              /\ d.num_predecessors # 0
              /\ d1.num_predecessors = 0
              /\ iterations + 1 = dist
              /\ \A e \in DAGPredecessors(current_src_node, v) :
                   RefDist(current_src_node)[e[1]] = iterations
              /\ d1.to_add = 0
              /\ d1.num_shortest_paths >= PredecessorPaths(v)
              /\ Len(processed) = 1 =>
                   d1.num_shortest_paths = RefPaths(current_src_node, v)
         /\ d.propogation_flag => d1.num_shortest_paths = d.num_shortest_paths
         /\ (d.propogation_flag /\ pc = "NumShortestPaths"
               /\ d.num_successors # 0) =>
              (~d1.propogation_flag /\ iterations = dist)

C25_ReadyWhenFinal == [][C25_FlagStep]_vars

\* a node with two DAG predecessors, whose contributions arrived on
\* different hosts, has just been marked ready on its owner
C25_Witness ==
  /\ pc = "NumShortestPaths_reduce"
  /\ \E v \in Nodes \ {current_src_node} :
       /\ nd[Owner(v)][v].propogation_flag
       /\ nd[Owner(v)][v].num_shortest_paths = 2
       /\ RefDist(current_src_node)[v] = iterations + 1
       /\ \E e, f \in DAGPredecessors(current_src_node, v) :
            graph.ehost[e] # graph.ehost[f]


(***************************************************************************)
(* C26: in the dependency phase every edge (u,v) of the shortest-path DAG  *)
(* with u not the source contributes to u's trim and to_add_float in one   *)
(* round only, the round whose number is the height of v in the DAG; the   *)
(* dependency and num_shortest_paths of v that u's host reads in that      *)
(* round are those of v's owner, and the owner's dependency of v does not  *)
(* change from that round on until it is folded into the score.            *)
(***************************************************************************)
\* the length of the longest path of the shortest-path DAG of s that starts at v
RECURSIVE Height(_, _)
Height(s, v) ==
  LET W == {e[2] : e \in DAGSuccessors(s, v)}
      hs == {Height(s, w) : w \in W}
  IN IF W = {} THEN 0
     ELSE 1 + CHOOSE m \in hs : \A k \in hs : k <= m

\* the DAG edges out of u stored on host h whose round is the running round
ReadEdges(h, u) ==
  {e \in DAGSuccessors(current_src_node, u) :
     /\ u # current_src_node
     /\ graph.ehost[e] = h
     /\ Height(current_src_node, e[2]) = iterations}

Contribution(h, e) ==
  FMul(FDiv(FromInt(nd[h][e[1]].num_shortest_paths),
            FromInt(nd[h][e[2]].num_shortest_paths)),
       FAdd(FOne, nd[h][e[2]].dependency))

DependencyPcs ==
  {"DependencyPropogation", "DependencyPropogation_sync_trim",
   "DependencyPropogation_sync_to_add_float", "DependencyPropChanges",
   "DependencyPropChanges_sync_prop_flag", "DependencyPropogation_reduce",
   "DependencyPropogation_sync_dep"}

C26_ContributeStep ==
  pc = "DependencyPropogation" =>
    \A h \in Hosts : \A u \in Nodes :
      LET P == ReadEdges(h, u)
      IN /\ nd'[h][u].trim = U32(nd[h][u].trim + Cardinality(P))
         /\ nd'[h][u].to_add_float =
              FAdd(nd[h][u].to_add_float,
                   FSum([e \in P |-> Contribution(h, e)], P))
         /\ \A e \in P :
              LET v == e[2]
              IN /\ nd[h][v].dependency = nd[Owner(v)][v].dependency
                 /\ nd[h][v].num_shortest_paths
                      = nd[Owner(v)][v].num_shortest_paths
                 /\ Len(processed) = 1 =>
                      /\ nd[h][v].dependency = RefDelta(current_src_node, v)
                      /\ nd[h][v].num_shortest_paths
                           = RefPaths(current_src_node, v)

C26_FinalStep ==
  pc \in DependencyPcs =>
    \A v \in Nodes :
      nd'[Owner(v)][v].dependency # nd[Owner(v)][v].dependency =>
        (pc = "DependencyPropChanges" /\ iterations < Height(current_src_node, v))

C26_AllRead ==
  pc = "BC" =>
    \A e \in RefDAG(current_src_node) :
      e[1] # current_src_node => Height(current_src_node, e[2]) < iterations

C26_ReadsFinal == [][C26_ContributeStep /\ C26_FinalStep /\ C26_AllRead]_vars

\* a node other than the source has just read, on a host that holds a mirror
\* of its successor, a successor with a non-zero dependency
C26_Witness ==
  /\ pc = "DependencyPropogation_sync_trim"
  /\ \E h \in Hosts : \E u \in Nodes : \E e \in ReadEdges(h, u) :
       /\ ~isOwned(h, e[2])
       /\ FGtZero(nd[h][e[2]].dependency)
       /\ nd[h][u].trim = 1
       /\ FGtZero(nd[h][u].to_add_float)

(***************************************************************************)
(* C27: the propogation_flag is one-shot per phase.  Neither Changes pass  *)
(* reaches the statement that sets the flag on a replica whose flag is     *)
(* already set, and within the path-count phase and within the dependency  *)
(* phase of one source iteration the flag of a replica rises at most once  *)
(* and falls at most once: it rises only in the round before the round of  *)
(* the node (its distance from the source in the path-count phase, its     *)
(* height in the DAG in the dependency phase) or, for a node without       *)
(* successors, in the sync that ends the path-count phase, and it falls    *)
(* only in the round of the node.                                          *)
(***************************************************************************)
Rises(h, v) == ~nd[h][v].propogation_flag /\ nd'[h][v].propogation_flag
Falls(h, v) == nd[h][v].propogation_flag /\ ~nd'[h][v].propogation_flag

\* the pass is about to run the statement that sets the flag of the replica
SetsFlag(h, v) ==
  LET d == nd[h][v]
  IN /\ v \in LocalNodes(h)
     /\ d.trim # 0
     /\ \/ /\ pc = "NumShortestPathsChanges"
           /\ U32(d.num_predecessors - d.trim) = 0
        \/ /\ pc = "DependencyPropChanges"
           /\ d.current_length # infinity
           /\ ~(d.num_successors = 0 /\ d.propogation_flag)
           /\ U32(d.num_successors - d.trim) = 0

C27_AssertStep ==
  \A h \in Hosts : \A v \in Nodes :
    SetsFlag(h, v) => (~nd[h][v].propogation_flag /\ ~assert_failed')

C27_PathCountStep ==
  pc \in PathCountPcs \cup {"NumShortestPaths_sync_num_paths",
                            "NumShortestPaths_sync_prop_flag"} =>
    \A h \in Hosts : \A v \in Nodes :
      LET dist == RefDist(current_src_node)[v]
      IN /\ nd'[h][v].num_successors = nd[h][v].num_successors
         /\ Rises(h, v) =>
              \/ pc = "NumShortestPathsChanges" /\ iterations + 1 = dist
              \/ /\ pc = "NumShortestPaths_sync_prop_flag"
                 /\ nd[h][v].num_successors = 0
         /\ Falls(h, v) =>
              /\ pc = "NumShortestPaths"
              /\ iterations = dist
              /\ nd[h][v].num_successors # 0

C27_DependencyStep ==
  pc \in DependencyPcs =>
    \A h \in Hosts : \A v \in Nodes :
      LET height == Height(current_src_node, v)
      IN /\ Rises(h, v) =>
              /\ pc \in {"DependencyPropChanges",
                         "DependencyPropChanges_sync_prop_flag"}
              /\ iterations + 1 = height
         /\ Falls(h, v) =>
              /\ pc \in {"DependencyPropChanges",
                         "DependencyPropChanges_sync_prop_flag"}
              /\ iterations = height

C27_OneShot ==
  [][C27_AssertStep /\ C27_PathCountStep /\ C27_DependencyStep]_vars

\* the flag of a mirror, risen and fallen in the path-count phase, has risen
\* again in the dependency phase
C27_Witness ==
  /\ pc = "DependencyPropogation_reduce"
  /\ \E h \in Hosts : \E v \in Nodes \ {current_src_node} :
       /\ ~isOwned(h, v)
       /\ isLocal(h, v)
       /\ nd[h][v].propogation_flag
       /\ Height(current_src_node, v) = iterations + 1
       /\ DAGSuccessors(current_src_node, v) # {}

(***************************************************************************)
(* C28: the pass that consumes the deferred accumulators leaves them zero: *)
(* after every pass of NumShortestPathsChanges every replica of every node *)
(* has trim = 0 and to_add = 0, and after every pass of                    *)
(* DependencyPropChanges every replica of every node has trim = 0 and      *)
(* to_add_float = 0; a replica found by DependencyPropChanges with         *)
(* num_successors = 0 and its flag set has trim = 0.                       *)
(***************************************************************************)
C28_AfterPathChanges ==
  pc = "NumShortestPaths_reduce" =>
    \A h \in Hosts : \A v \in Nodes :
      nd[h][v].trim = 0 /\ nd[h][v].to_add = 0

C28_AfterDependencyChanges ==
  pc = "DependencyPropChanges_sync_prop_flag" =>
    \A h \in Hosts : \A v \in Nodes :
      nd[h][v].trim = 0 /\ nd[h][v].to_add_float = FZero

C28_ConsumedUntrimmed ==
  pc = "DependencyPropChanges" =>
    \A h \in Hosts : \A v \in LocalNodes(h) :
      (/\ nd[h][v].current_length # infinity
       /\ nd[h][v].num_successors = 0
       /\ nd[h][v].propogation_flag) => nd[h][v].trim = 0

C28_Zeroed ==
  C28_AfterPathChanges /\ C28_AfterDependencyChanges /\ C28_ConsumedUntrimmed

\* a pass of DependencyPropChanges has just folded a to_add_float into the
\* dependency of a mirror and cleared the trim that came with it
C28_Witness ==
  /\ pc = "DependencyPropChanges_sync_prop_flag"
  /\ \E h \in Hosts : \E v \in Nodes :
       /\ ~isOwned(h, v)
       /\ IsSource(h, v)
       /\ FGtZero(nd[h][v].dependency)
       /\ nd[h][v].propogation_flag
       /\ Height(current_src_node, v) = iterations + 1

(***************************************************************************)
(* C29: during the iteration of the source s, every replica of s keeps     *)
(* dependency = 0, and the fold at the end of the iteration leaves the     *)
(* score of s as it was; in the dependency phase no replica of s gets a    *)
(* trim or a to_add_float, and the first pass of DependencyPropogation     *)
(* sets the num_successors of s to 0.                                      *)
(***************************************************************************)
C29_SourceState ==
  \A h \in Hosts :
    LET d == nd[h][current_src_node]
    IN /\ pc \in IterationPcs => d.dependency = FZero
       /\ pc \in DependencyPcs =>
            /\ d.trim = 0
            /\ d.to_add_float = FZero
            /\ (pc # "DependencyPropogation" \/ iterations > 0) =>
                 d.num_successors = 0

C29_SourceStep ==
  pc = "BC" =>
    \A h \in Hosts :
      nd'[h][current_src_node].betweeness_centrality
        = nd[h][current_src_node].betweeness_centrality

C29_SourceIdle == [][C29_SourceState /\ C29_SourceStep]_vars

\* a source with two successors, whose successor count the first pass has
\* reset, has just been passed over in the round in which a successor is ready
C29_Witness ==
  /\ pc = "DependencyPropogation_sync_trim"
  /\ iterations = 1
  /\ Cardinality(DAGSuccessors(current_src_node, current_src_node)) = 2
  /\ Height(current_src_node, current_src_node) = 2
  /\ \E h \in Hosts :
       /\ ~isOwned(h, current_src_node)
       /\ IsSource(h, current_src_node)
       /\ nd[h][current_src_node].num_successors = 0

(***************************************************************************)
(* C30: the sync of dependency (set, from the Source to the Destination    *)
(* replicas, filtered by the dirty bitset) is issued at the end of every   *)
(* round of the dependency loop whose global accumulator is not zero; the  *)
(* round whose accumulator is zero leaves the loop without it.  At that    *)
(* point the same sync would change no replica.                            *)
(***************************************************************************)
\* as stated: the round whose accumulator is zero ends with the sync
C30_SyncOnTerminationStep ==
  (pc = "DependencyPropogation_reduce" /\ accum_result'[0] = 0) =>
    pc' = "DependencyPropogation_sync_dep"

C30_SyncOnTermination == [][C30_SyncOnTerminationStep]_vars

DependencySync(last) ==
  sync(Cur, "dependency", "Source", "Destination", "set", TRUE, last)

C30_SyncStep ==
  /\ pc = "DependencyPropogation_reduce" =>
       /\ accum_result'[0] # 0 => pc' = "DependencyPropogation_sync_dep"
       /\ accum_result'[0] = 0 => pc' = "BC"
  /\ pc = "DependencyPropogation_sync_dep" =>
       /\ accum_result[0] # 0
       /\ \E last \in ArrivalOrders : nd' = DependencySync(last).nd
       /\ pc' = "DependencyPropogation"
  /\ pc' = "BC" =>
       \A last \in ArrivalOrders : DependencySync(last).nd' = nd'

C30_SyncWhileRunning == [][C30_SyncStep]_vars

\* the loop has been left, after rounds that ended with the sync, with a
\* non-zero dependency on a mirror
C30_Witness ==
  /\ pc = "BC"
  /\ iterations >= 2
  /\ accum_result[0] = 0
  /\ \E h \in Hosts : \E v \in Nodes :
       /\ ~isOwned(h, v)
       /\ IsDestination(h, v)
       /\ FGtZero(nd[h][v].dependency)

(***************************************************************************)
(* C31: the path-count loop, once its global accumulator is zero, is       *)
(* followed by the syncs of num_shortest_paths and of propogation_flag     *)
(* (set, from the Source to the Destination replicas); when the dependency *)
(* phase starts, every Destination replica of every node reachable from    *)
(* the source holds the num_shortest_paths and the propogation_flag of the *)
(* node's owner.                                                           *)
(***************************************************************************)
DependencyStart == pc = "DependencyPropogation" /\ iterations = 0

C31_AgreeState ==
  DependencyStart =>
    \A v \in Nodes : \A h \in Hosts :
      (Reachable(current_src_node, v) /\ IsDestination(h, v)) =>
        /\ nd[h][v].num_shortest_paths = nd[Owner(v)][v].num_shortest_paths
        /\ nd[h][v].propogation_flag = nd[Owner(v)][v].propogation_flag

C31_ExitStep ==
  /\ (pc = "NumShortestPaths_reduce" /\ accum_result'[0] = 0) =>
       pc' = "NumShortestPaths_sync_num_paths"
  /\ pc = "NumShortestPaths_sync_num_paths" =>
       /\ \E last \in ArrivalOrders :
            nd' = sync(Cur, "num_shortest_paths", "Source", "Destination",
                       "set", TRUE, last).nd
       /\ pc' = "NumShortestPaths_sync_prop_flag"
  /\ pc = "NumShortestPaths_sync_prop_flag" =>
       /\ \E last \in ArrivalOrders :
            nd' = sync(Cur, "propogation_flag", "Source", "Destination",
                       "set", TRUE, last).nd
       /\ pc' = "DependencyPropogation"

C31_SyncedAtExit == [][C31_AgreeState /\ C31_ExitStep]_vars

\* the dependency phase starts with a mirror, in the Destination role only,
\* of a node with two shortest paths and no successor
C31_Witness ==
  /\ DependencyStart
  /\ \E v \in Nodes : \E h \in Hosts :
       /\ ~isOwned(h, v)
       /\ IsDestination(h, v)
       /\ ~IsSource(h, v)
       /\ nd[Owner(v)][v].propogation_flag
       /\ RefPaths(current_src_node, v) = 2

(***************************************************************************)
(* C32: the BFS round loop is left in the first round in which no host has *)
(* lowered a distance, and in no other: a host's accumulator is zero after *)
(* its pass exactly when the pass has lowered no current_length, the loop  *)
(* goes on exactly when the sum of the accumulators is not zero, and when  *)
(* the loop is left every edge (u,v), on the host that stores it, with a   *)
(* finite current_length(u) has current_length(v) <= current_length(u) + 1.*)
(***************************************************************************)
FixedPoint ==
  \A e \in graph.E :
    LET h == graph.ehost[e]
    IN nd[h][e[1]].current_length # infinity =>
         ~UGt(nd[h][e[2]].current_length, U32(nd[h][e[1]].current_length + 1))

C32_RoundStep ==
  /\ pc = "SSSP" =>
       (DGAccumulator_accum'["SSSP"][hid] = 0
          <=> \A v \in Nodes :
                nd'[hid][v].current_length = nd[hid][v].current_length)
  /\ pc = "SSSP_reduce" =>
       \A h \in Hosts :
         accum_result'[h] = SumOver(DGAccumulator_accum["SSSP"], Hosts)
  /\ pc = "SSSP_sync" =>
       /\ accum_result[0] # 0 => pc' = "SSSP"
       /\ accum_result[0] = 0 => (pc' = "PredAndSucc" /\ FixedPoint /\ FixedPoint')

C32_ExitAtFixedPoint == [][C32_RoundStep]_vars

\* the loop has been left after three rounds, the distance 2 lying on a mirror
C32_Witness ==
  /\ pc = "PredAndSucc"
  /\ iterations >= 3
  /\ accum_result[0] = 0
  /\ \E h \in Hosts : \E v \in Nodes :
       /\ ~isOwned(h, v)
       /\ isLocal(h, v)
       /\ nd[h][v].current_length = 2

(***************************************************************************)
(* C33: no data race on the plain fields of NodeData.  In every do_all     *)
(* pass, a task changes the node data of a node other than its own only in *)
(* fields declared std::atomic; the plain fields a pass writes are those   *)
(* listed for it, each written by the node's own task; and the outcome of  *)
(* a task depends on no plain field of another node that the pass writes.  *)
(***************************************************************************)
AtomicFields ==
  {"current_length", "num_shortest_paths", "num_predecessors", "trim", "to_add"}

PlainFields ==
  {"old_length", "num_successors", "to_add_float", "dependency",
   "betweeness_centrality", "propogation_flag"}

PassKinds ==
  {"InitializeGraph", "InitializeIteration", "FirstIterationSSSP", "SSSP",
   "PredAndSucc", "NumShortestPaths", "NumShortestPathsChanges",
   "DependencyPropogation", "DependencyPropChanges", "BC"}

\* the plain fields the tasks of a pass assign
PlainWrites(kind) ==
  CASE kind = "InitializeGraph" -> PlainFields \ {"old_length"}
    [] kind = "InitializeIteration" ->
         {"old_length", "propogation_flag"}
    [] kind = "FirstIterationSSSP" -> {}
    [] kind = "SSSP" -> {"old_length"}
    [] kind = "PredAndSucc" -> {"num_successors"}
    [] kind = "NumShortestPaths" -> {"propogation_flag"}
    [] kind = "NumShortestPathsChanges" -> {"propogation_flag"}
    [] kind = "DependencyPropogation" -> {"to_add_float", "num_successors"}
    [] kind = "DependencyPropChanges" ->
         {"to_add_float", "dependency", "num_successors", "propogation_flag"}
    [] kind = "BC" -> {"betweeness_centrality", "dependency"}

\* the nodes a host's pass at the current position hands to its tasks
TaskNodes(h) ==
  IF pc = "FirstIterationSSSP"
  THEN {v \in LocalNodes(h) : v = current_src_node}
  ELSE LocalNodes(h)

\* another value of the same type for a plain field
Other(f, x) ==
  CASE f = "propogation_flag" -> ~x
    [] f \in {"old_length", "num_successors"} -> U32(x + 1)
    [] OTHER -> FAdd(x, FOne)

\* the task of src gives another outcome when the plain field f of w changes
ReadsPlain(kind, h, src, w, f) ==
  LET S == HostState(h, 0)
      T == [S EXCEPT !.d[w][f] = Other(f, @)]
      R == TaskOp(kind, h, S, src)
      Q == TaskOp(kind, h, T, src)
  IN \/ Q.b # R.b
     \/ Q.acc # R.acc
     \/ Q.af # R.af
     \/ \E x \in Nodes : \E g \in AtomicFields \cup PlainFields :
          (x # w \/ g # f) /\ Q.d[x][g] # R.d[x][g]

C33_NoRace ==
  pc \in PassKinds =>
    \A h \in Hosts : \A src \in TaskNodes(h) :
      LET S == HostState(h, 0)
          R == TaskOp(pc, h, S, src)
      IN /\ \A w \in Nodes \ {src} : \A f \in PlainFields :
              /\ R.d[w][f] = S.d[w][f]
              /\ f \in PlainWrites(pc) => ~ReadsPlain(pc, h, src, w, f)
         /\ \A f \in PlainFields \ PlainWrites(pc) : R.d[src][f] = S.d[src][f]

\* a task of the dependency pass is about to read the flag and the dependency
\* of another node, a mirror, and to add to its own trim
C33_Witness ==
  /\ pc = "DependencyPropogation"
  /\ \E h \in Hosts : \E src \in LocalNodes(h) : \E w \in Nodes \ {src} :
       /\ ~isOwned(h, w)
       /\ ReadsPlain(pc, h, src, w, "propogation_flag")
       /\ ReadsPlain(pc, h, src, w, "dependency")
       /\ TaskOp(pc, h, HostState(h, 0), src).d[src].trim = 1

(***************************************************************************)
(* C34: the outcome of a pass does not depend on the order in which the    *)
(* tasks of the nodes run.  For PredAndSucc, NumShortestPaths,             *)
(* NumShortestPathsChanges, DependencyPropogation and DependencyPropChanges*)
(* every order of a host's tasks leaves the same integer fields, flags,    *)
(* dirty bitsets and count; the BFS, whose passes are taken in every       *)
(* order, ends with distances that the graph and the source determine.     *)
(***************************************************************************)
OrderFreePasses ==
  {"PredAndSucc", "NumShortestPaths", "NumShortestPathsChanges",
   "DependencyPropogation", "DependencyPropChanges"}

IntegerFields ==
  {"current_length", "old_length", "num_shortest_paths", "num_successors",
   "num_predecessors", "trim", "to_add", "propogation_flag"}

SameIntegers(R, Q) ==
  /\ R.b = Q.b
  /\ R.acc = Q.acc
  /\ R.af = Q.af
  /\ \A v \in Nodes : \A f \in IntegerFields : R.d[v][f] = Q.d[v][f]

C34_AnyOrder ==
  pc \in OrderFreePasses =>
    \A h \in Hosts : \A order \in Orders(LocalNodes(h)) :
      SameIntegers(do_all(pc, h, HostState(h, 0), order),
                   do_all(pc, h, HostState(h, 0), LocalRange(h)))

C34_SameDistances ==
  pc = "PredAndSucc" =>
    \A v \in Nodes : \A h \in Replicas(v) :
      nd[h][v].current_length = RefDist(current_src_node)[v]

C34_OrderIndependent == C34_AnyOrder /\ C34_SameDistances

\* two tasks of one host are about to push into the same node
C34_Witness ==
  /\ pc = "NumShortestPaths"
  /\ \E h \in Hosts : \E v \in Nodes :
       Cardinality(PushedEdges(h, v)) = 2

\* a BFS pass whose outcome depends on the order of its tasks
C34_OrderMatters ==
  /\ pc = "SSSP"
  /\ \E p, q \in Orders(LocalNodes(hid)) :
       do_all("SSSP", hid, HostState(hid, 0), p).d
         # do_all("SSSP", hid, HostState(hid, 0), q).d

(***************************************************************************)
(* C35: at the end of every source iteration, after the fold into          *)
(* betweeness_centrality, the owner of every node holds num_predecessors,  *)
(* num_successors, trim, to_add and to_add_float equal to 0, and the       *)
(* counts of predecessors and successors of the next source start from 0.  *)
(***************************************************************************)
Cleared(d) ==
  /\ d.num_predecessors = 0
  /\ d.num_successors = 0
  /\ d.trim = 0
  /\ d.to_add = 0
  /\ d.to_add_float = FZero

C35_ClearedAtEnd ==
  /\ pc = "BC_for" => \A v \in Nodes : Cleared(nd[Owner(v)][v])
  /\ pc = "PredAndSucc" =>
       \A v \in Nodes : /\ nd[Owner(v)][v].num_predecessors = 0
                        /\ nd[Owner(v)][v].num_successors = 0

\* the second source iteration of a run has ended on a graph in which a node
\* had two predecessors and the source two successors
C35_Witness ==
  /\ pc = "BC_for"
  /\ Len(processed) = 2
  /\ \E v \in Nodes :
       Cardinality(DAGPredecessors(current_src_node, v)) = 2
  /\ Cardinality(DAGSuccessors(current_src_node, current_src_node)) = 2

(***************************************************************************)
(* C36: when the path-count loop is left, and when the dependency phase    *)
(* starts, the owner of every node reachable from the source holds         *)
(* num_predecessors = 0; the owner's propogation_flag is true exactly for  *)
(* the reachable nodes without a successor in the shortest-path DAG, which *)
(* are the reachable nodes with num_successors = 0.                        *)
(***************************************************************************)
PathCountExit ==
  pc \in {"NumShortestPaths_sync_num_paths", "NumShortestPaths_sync_prop_flag"}
    \/ DependencyStart

IsSink(v) ==
  /\ Reachable(current_src_node, v)
  /\ DAGSuccessors(current_src_node, v) = {}

C36_FlagsAtExit ==
  PathCountExit =>
    \A v \in Nodes :
      LET d == nd[Owner(v)][v]
      IN /\ Reachable(current_src_node, v) =>
              /\ d.num_predecessors = 0
              /\ (d.num_successors = 0 <=> IsSink(v))
         /\ d.propogation_flag <=> IsSink(v)

C36_FlagsAtExitReplicas ==
  DependencyStart =>
    \A v \in Nodes : \A h \in Replicas(v) :
      nd[h][v].propogation_flag <=> IsSink(v)

\* the loop has been left in the second source iteration with a sink and a
\* node that is not a sink, both reachable and both with mirrors
C36_Witness ==
  /\ pc = "NumShortestPaths_sync_num_paths"
  /\ Len(processed) = 2
  /\ \E v, w \in Nodes \ {current_src_node} :
       /\ IsSink(v)
       /\ Reachable(current_src_node, w) /\ ~IsSink(w)
       /\ \E h \in Replicas(v) : ~isOwned(h, v)
       /\ \E h \in Replicas(w) : ~isOwned(h, w)

(***************************************************************************)
(* C37: no division by zero in the dependency pass: whenever the task of a *)
(* node u divides by the num_shortest_paths of a successor v (u is at a    *)
(* finite distance, has successors left and is not the source; v's flag is *)
(* set and current_length(u) + 1 = current_length(v)), the value of        *)
(* num_shortest_paths that u's host holds for v is not 0.                  *)
(***************************************************************************)
\* the nodes by whose num_shortest_paths the task of src on host h divides
Divisors(h, src) ==
  IF /\ nd[h][src].current_length # infinity
     /\ nd[h][src].num_successors # 0
     /\ src # current_src_node
  THEN {w \in EdgeDsts(h, src) :
          /\ nd[h][w].propogation_flag
          /\ U32(nd[h][src].current_length + 1) = nd[h][w].current_length}
  ELSE {}

C37_NoDivisionByZero ==
  pc = "DependencyPropogation" =>
    \A h \in Hosts : \A src \in LocalNodes(h) : \A w \in Divisors(h, src) :
      /\ nd[h][w].num_shortest_paths # 0
      /\ nd[h][src].to_add_float[2] # 0
      /\ nd[h][w].dependency[2] # 0

\* in the second source iteration a task divides by the count held by a
\* mirror of a node that the first source reached too
C37_Witness ==
  /\ pc = "DependencyPropogation"
  /\ Len(processed) = 2
  /\ \E h \in Hosts : \E src \in LocalNodes(h) : \E w \in Divisors(h, src) :
       /\ ~isOwned(h, w)
       /\ Reachable(processed[1], w)

(***************************************************************************)
(* C38: distances stay in range.  Once InitializeIteration has set them,   *)
(* the current_length of every replica is infinity or at most the number   *)
(* of nodes - 1; the seed pass computes its candidate distance from the    *)
(* distance 0 of the source, and a task of a BFS round computes a          *)
(* candidate 1 + current_length only from a current_length other than      *)
(* infinity, so that the candidate is at most the number of nodes and      *)
(* never wraps.                                                            *)
(***************************************************************************)
\* InitializeIteration has run in this run of BC::go
DistancesSet ==
  /\ Len(processed) >= 1
  /\ (pc = "InitializeIteration" => Len(processed) >= 2)

InRange(x) == x = infinity \/ (0 <= x /\ x <= totalNodes - 1)

\* the nodes from whose distance the pass at the current position computes a
\* candidate distance, on host h
Relaxing(h) ==
  CASE pc = "FirstIterationSSSP" -> TaskNodes(h)
    [] pc = "SSSP" /\ h = hid ->
         {v \in LocalNodes(h) :
            UGt(nd[h][v].old_length, nd[h][v].current_length)}
    [] OTHER -> {}

C38_InRange ==
  DistancesSet =>
    \A h \in Hosts :
      /\ \A v \in LocalNodes(h) : InRange(nd[h][v].current_length)
      /\ \A v \in Relaxing(h) :
           /\ nd[h][v].current_length # infinity
           /\ 1 + nd[h][v].current_length <= totalNodes
           /\ U32(1 + nd[h][v].current_length) = 1 + nd[h][v].current_length

\* a task of a BFS round is about to compute the candidate 3 from a mirror at
\* distance 2, while a node on its host is still at infinity
C38_Witness ==
  /\ pc = "SSSP"
  /\ DistancesSet
  /\ \E v \in Relaxing(hid) :
       /\ ~isOwned(hid, v)
       /\ nd[hid][v].current_length = 2
  /\ \E w \in LocalNodes(hid) : nd[hid][w].current_length = infinity

(***************************************************************************)
(* C39: once the BFS loop of a source iteration has been left, no step of  *)
(* the pred/succ, path-count and dependency phases and of the fold changes *)
(* the current_length of any replica, and at every position of those       *)
(* phases the test current_length(u) + 1 = current_length(v), on the host  *)
(* that stores the edge (u,v), selects the edges of the shortest-path DAG  *)
(* of the source.                                                          *)
(***************************************************************************)
AfterBFSPcs == IterationPcs \ ({"InitializeIteration", "InitializeIteration_sync"}
                                \cup BFSPcs)

\* the edges stored on host h that pass the test of the three phases
SelectedEdges(h) ==
  {e \in graph.E :
     /\ graph.ehost[e] = h
     /\ nd[h][e[1]].current_length # infinity
     /\ U32(nd[h][e[1]].current_length + 1) = nd[h][e[2]].current_length}

C39_FrameStep ==
  pc \in AfterBFSPcs =>
    /\ \A h \in Hosts : \A v \in Nodes :
         nd'[h][v].current_length = nd[h][v].current_length
    /\ \A h \in Hosts :
         SelectedEdges(h) = {e \in RefDAG(current_src_node) : graph.ehost[e] = h}

C39_DistancesFrozen == [][C39_FrameStep]_vars

\* the fold of the second source iteration is reached with a DAG edge whose
\* head is a mirror on the host that stores the edge
C39_Witness ==
  /\ pc = "BC"
  /\ Len(processed) = 2
  /\ \E h \in Hosts : \E e \in SelectedEdges(h) :
       /\ ~isOwned(h, e[2])
       /\ nd[h][e[2]].current_length = 2
=============================================================================
